---- MODULE Spec2Model ----
(***************************************************************************)
(* Verification model of the EDI-Parser crate: the X12 tokenizer and       *)
(* interchange assembler (parsers/x12.rs), the structural validator, the   *)
(* schema engine (models/schema_engine.rs), the element validators         *)
(* (models/validated_element.rs, models/segment_definition.rs), the        *)
(* 850 purchase-order transaction (transactions/purchase_order_850.rs) and *)
(* the schema validating parser (parsers/schema_validating_parser.rs).     *)
(*                                                                         *)
(* Text is modelled as a sequence of one-character strings, so that        *)
(* splitting, trimming and prefix tests are computed as the code computes  *)
(* them.  Option<T> is modelled as a sequence of length 0 (None) or 1      *)
(* (Some).                                                                 *)
(***************************************************************************)
EXTENDS Integers, Sequences, FiniteSets, TLC

VARIABLES
    self,                 \* the X12Parser the call is made on
    input,                \* the text handed to parse
    doc,                  \* how the input text was written (its shape)
    pc,                   \* position of the parse / validate call
    segments,             \* Vec<&str>: the non-blank records of the input
    isa_segment,          \* Segment parsed from segments[0]
    parser,               \* the parser used for the records after the header
    idx,                  \* index of the record the loop is at (1-based)
    functional_groups,    \* Vec<FunctionalGroup> built so far
    current_fg,           \* Option<FunctionalGroup>
    current_transaction,  \* Option<Transaction>
    result,               \* outcome of parse
    validation,           \* outcome of validate on an Ok result
    engine,               \* the SchemaEngine
    request,              \* transaction type, version and segment IDs to validate
    outcome,              \* what the last call on the SchemaEngine returned
    elem_input,           \* version and Segment handed to element validation
    validated,            \* outcome of ValidatingSegmentParser::parse_and_validate
    segment_results,      \* parse_with_schema: segment_validation_results
    transaction,          \* the Transaction handed to PurchaseOrder850
    po,                   \* outcome of PurchaseOrder850::parse_transaction
    po_validation,        \* outcome of PurchaseOrder850::validate
    config,               \* ParsingConfig of the SchemaValidatingParser
    parsing               \* outcome of parse_with_schema

parseVars == <<self, input, doc, pc, segments, isa_segment, parser, idx,
               functional_groups, current_fg, current_transaction, result,
               validation>>

schemaVars == <<engine, request, outcome>>

elementVars == <<elem_input, validated, segment_results>>

poVars == <<transaction, po, po_validation>>

pipelineVars == <<config, parsing>>

vars == <<parseVars, schemaVars, elementVars, poVars, pipelineVars>>

\* the value of every variable of a component that is not under study
Idle == [tag |-> "idle"]

ParseIdle ==
    /\ self = Idle /\ input = Idle /\ doc = Idle /\ pc = "idle"
    /\ segments = Idle /\ isa_segment = Idle /\ parser = Idle /\ idx = 0
    /\ functional_groups = Idle /\ current_fg = Idle
    /\ current_transaction = Idle /\ result = Idle /\ validation = Idle

SchemaIdle == engine = Idle /\ request = Idle /\ outcome = Idle

ElementIdle == elem_input = Idle /\ validated = Idle /\ segment_results = Idle

PoIdle == transaction = Idle /\ po = Idle /\ po_validation = Idle

PipelineIdle == config = Idle /\ parsing = Idle

----------------------------------------------------------------------------
(* Bounds of the model.                                                    *)

\* longest free sequence of records after the header
MaxBody == 4
\* most functional groups in a well-formed document
MaxGroups == 2
\* most transactions per group in a well-formed document
MaxTx == 2
\* most segments between ST and SE in a well-formed document
MaxInner == 1

\* pieces a header record must split into (x12.rs 84, 103)
IsaMinPieces == 16
\* elements validate requires of the header (x12.rs 222)
IsaMinElements == 15

----------------------------------------------------------------------------
(* Text helpers: Rust's str::trim, str::split(char), str::starts_with.     *)

None == <<>>
Some(x) == <<x>>
IsSome(o) == Len(o) = 1
Unwrap(o) == o[1]

NL == "\n"
WhiteSpace == {" ", NL}

RECURSIVE TrimStart(_)
TrimStart(s) ==
    IF Len(s) > 0 /\ s[1] \in WhiteSpace THEN TrimStart(Tail(s)) ELSE s

RECURSIVE TrimEnd(_)
TrimEnd(s) ==
    IF Len(s) > 0 /\ s[Len(s)] \in WhiteSpace
    THEN TrimEnd(SubSeq(s, 1, Len(s) - 1))
    ELSE s

StrTrim(s) == TrimEnd(TrimStart(s))

\* str::split(sep): the pieces between separators; always at least one piece
RECURSIVE StrSplit(_, _)
StrSplit(s, sep) ==
    IF \E i \in 1..Len(s) : s[i] = sep
    THEN LET i == CHOOSE k \in 1..Len(s) :
                      s[k] = sep /\ \A j \in 1..(k - 1) : s[j] # sep
         IN  <<SubSeq(s, 1, i - 1)>> \o StrSplit(SubSeq(s, i + 1, Len(s)), sep)
    ELSE <<s>>

StartsWith(s, prefix) ==
    Len(s) >= Len(prefix) /\ SubSeq(s, 1, Len(prefix)) = prefix

\* Iterator::filter on a Vec
RECURSIVE FilterNonBlank(_)
FilterNonBlank(ss) ==
    IF ss = <<>> THEN <<>>
    ELSE IF StrTrim(Head(ss)) = <<>> THEN FilterNonBlank(Tail(ss))
         ELSE <<Head(ss)>> \o FilterNonBlank(Tail(ss))

\* slice.get(i) with a 0-based index
Get(v, i) == IF i + 1 <= Len(v) THEN Some(v[i + 1]) ELSE None

\* Segment identifiers and element values used by the documents
sISA == <<"I", "S", "A">>
sIEA == <<"I", "E", "A">>
sGS == <<"G", "S">>
sGE == <<"G", "E">>
sST == <<"S", "T">>
sSE == <<"S", "E">>
sBIG == <<"B", "I", "G">>
s810 == <<"8", "1", "0">>
s850 == <<"8", "5", "0">>

Digit(n) == <<ToString(n)>>

----------------------------------------------------------------------------
(* X12Parser                                                               *)

X12Parser_default ==
    [element_separator |-> "*", segment_separator |-> "~",
     sub_element_separator |-> ">", strict_validation |-> FALSE,
     trim_whitespace |-> TRUE]

with_delimiters(e, s, sub) ==
    [element_separator |-> e, segment_separator |-> s,
     sub_element_separator |-> sub, strict_validation |-> FALSE,
     trim_whitespace |-> TRUE]

with_config(e, s, sub, strict, trim) ==
    [element_separator |-> e, segment_separator |-> s,
     sub_element_separator |-> sub, strict_validation |-> strict,
     trim_whitespace |-> trim]

trim_whitespace(p, s) == IF p.trim_whitespace THEN StrTrim(s) ELSE s

Segment_new(id, elements) == [id |-> id, elements |-> elements]

TrimAll(p, pieces) == [i \in 1..Len(pieces) |-> trim_whitespace(p, pieces[i])]

\* parse_segment never fails: split always yields at least one piece
parse_segment(p, line) ==
    LET elements == TrimAll(p, StrSplit(line, p.element_separator))
    IN  Segment_new(elements[1], Tail(elements))

\* parse_isa_segment: the identifier of the record is not looked at
parse_isa_segment(p, isa_line) ==
    LET trimmed == trim_whitespace(p, isa_line)
        elements == TrimAll(p, StrSplit(trimmed, "*"))
    IN  IF Len(elements) < IsaMinPieces
        THEN [tag |-> "Err", err |-> "InvalidSegmentFormat"]
        ELSE [tag |-> "Ok", val |-> Segment_new(sISA, Tail(elements))]

\* chars().next().unwrap_or(d)
FirstCharOr(s, d) == IF Len(s) > 0 THEN s[1] ELSE d

\* extract_delimiters_from_isa: elements[15] and elements[16] are read after a
\* check that only guarantees 16 pieces; indexing past the end panics
extract_delimiters_from_isa(p, isa_segment_str) ==
    LET elements == StrSplit(isa_segment_str, "*")
    IN  IF Len(elements) < IsaMinPieces
        THEN [tag |-> "Err", err |-> "InvalidSegmentFormat"]
        ELSE IF Len(elements) < 17
        THEN [tag |-> "Panic"]
        ELSE [tag |-> "Ok",
              val |-> <<"*", FirstCharOr(elements[16], "~"),
                        FirstCharOr(elements[17], ">")>>]

\* the parser used for the records after the header (x12.rs 127-132)
ChooseParser(p, seps) ==
    IF seps[1] # p.element_separator \/ seps[2] # p.segment_separator
    THEN with_delimiters(seps[1], seps[2], seps[3])
    ELSE p

FunctionalGroup(gs) == [gs_segment |-> gs, ge_segment |-> None, transactions |-> <<>>]

Transaction_new(segs, id, cn) ==
    [segments |-> segs, transaction_set_id |-> id, control_number |-> cn]

\* a push that overwrites the list instead of extending it
PushTransaction_Replace(fg, tx) ==
    IF IsSome(fg)
    THEN Some([Unwrap(fg) EXCEPT !.transactions = <<tx>>])
    ELSE fg

\* fg.transactions.push(transaction) when a group is open; otherwise the
\* transaction taken out of current_transaction is dropped
PushTransaction(fg, tx) ==
    IF IsSome(fg)
    THEN Some([Unwrap(fg) EXCEPT !.transactions = Append(@, tx)])
    ELSE fg

----------------------------------------------------------------------------
(* The documents handed to parse.                                          *)

RECURSIVE JoinWith(_, _)
JoinWith(words, sep) ==
    IF Len(words) = 0 THEN <<>>
    ELSE IF Len(words) = 1 THEN words[1]
    ELSE words[1] \o <<sep>> \o JoinWith(Tail(words), sep)

RECURSIVE Concat(_)
Concat(ss) == IF ss = <<>> THEN <<>> ELSE Head(ss) \o Concat(Tail(ss))

\* a header record with n elements; element 13 is the control number,
\* elements 15 and 16 the usage indicator and the component separator
HeaderWords(id, n, ctrl) ==
    <<id>> \o [i \in 1..n |-> IF i = 13 THEN ctrl
                              ELSE IF i = 15 THEN <<"T">>
                              ELSE IF i = 16 THEN <<">">>
                              ELSE <<"0">>]

wGS(ctrl) == <<sGS, <<"0">>, <<"0">>, <<"0">>, <<"0">>, <<"0">>, ctrl>>
wGE(ctrl) == <<sGE, <<"1">>, ctrl>>
wST(ty, ctrl) == <<sST, ty, ctrl>>
wSTshort == <<sST, s810>>
wSE(ctrl) == <<sSE, <<"2">>, ctrl>>
wBIG == <<sBIG, <<"x">>>>
wIEA(ctrl) == <<sIEA, <<"1">>, ctrl>>

FreeKinds == {"GS", "GE", "ST", "STshort", "SE", "BIG", "IEA"}

KindWords(k) ==
    CASE k = "GS" -> wGS(<<"1">>)
      [] k = "GE" -> wGE(<<"1">>)
      [] k = "ST" -> wST(s810, <<"1">>)
      [] k = "STshort" -> wSTshort
      [] k = "SE" -> wSE(<<"1">>)
      [] k = "BIG" -> wBIG
      [] k = "IEA" -> wIEA(<<"1">>)

\* the records of a well-formed body: k groups of t transactions of n inner
\* segments; a trailer carries "0" where a mismatch is asked for
WfTx(g, j, d) ==
    LET num == (g - 1) * d.t + j
        last == g = d.k /\ j = d.t
    IN  <<wST(IF num % 2 = 1 THEN s810 ELSE s850, Digit(num))>>
        \o [i \in 1..d.n |-> wBIG]
        \o <<wSE(IF last /\ ~d.se_ok THEN <<"0">> ELSE Digit(num))>>

WfGroup(g, d) ==
    <<wGS(Digit(g))>>
    \o Concat([j \in 1..d.t |-> WfTx(g, j, d)])
    \o <<wGE(IF g = d.k /\ ~d.ge_ok THEN <<"0">> ELSE Digit(g))>>

WfBody(d) ==
    Concat([g \in 1..d.k |-> WfGroup(g, d)])
    \o <<wIEA(IF d.iea_ok THEN <<"1">> ELSE <<"0">>)>>

\* a body of class "records" is given record by record
BodyWords(d) ==
    IF d.class = "wf" THEN WfBody(d)
    ELSE IF d.class \in {"records", "padded"} THEN d.body
    ELSE [i \in 1..Len(d.body) |-> KindWords(d.body[i])]

\* the text of a document: every record is written with the document's element
\* separator and ended by its segment separator (followed by a line break when
\* the document is laid out one record per line)
Render(d) ==
    IF d.class = "empty" THEN d.blank
    ELSE LET recs == <<HeaderWords(d.hdr_id, d.hdr_n, <<"1">>)>> \o BodyWords(d)
             term == IF d.lf THEN <<d.ssep, NL>> ELSE <<d.ssep>>
         IN  Concat([i \in 1..Len(recs) |-> JoinWith(recs[i], d.esep) \o term])

BaseDoc ==
    [class |-> "free", body |-> <<>>, k |-> 0, t |-> 0, n |-> 0,
     iea_ok |-> TRUE, ge_ok |-> TRUE, se_ok |-> TRUE,
     hdr_id |-> sISA, hdr_n |-> 16, esep |-> "*", ssep |-> "~", lf |-> FALSE,
     blank |-> <<>>]

Bodies == UNION {[1..m -> FreeKinds] : m \in 0..MaxBody}

FreeDocs == {[BaseDoc EXCEPT !.body = b] : b \in Bodies}

WfDocs ==
    {[BaseDoc EXCEPT !.class = "wf", !.k = k, !.t = t, !.n = n,
                     !.iea_ok = f[1], !.ge_ok = f[2], !.se_ok = f[3]] :
        k \in 1..MaxGroups, t \in 1..MaxTx, n \in 0..MaxInner,
        f \in [1..3 -> BOOLEAN]}

SampleBody == <<"GS", "ST", "BIG", "SE", "GE", "IEA">>

\* headers that are too short or too long, and first records that are no ISA
HeaderDocs ==
    {[BaseDoc EXCEPT !.class = "header", !.body = SampleBody, !.hdr_n = n] :
        n \in {0, 2, 14, 15, 17}}
    \cup
    {[BaseDoc EXCEPT !.class = "header", !.body = SampleBody,
                     !.hdr_id = id, !.hdr_n = n] :
        id \in {sGS, <<"I", "n", "v">>}, n \in {2, 16, 17}}

EmptyDocs ==
    {[BaseDoc EXCEPT !.class = "empty", !.blank = b] :
        b \in {<<>>, <<" ">>, <<NL>>, <<"~">>, <<" ", "~", NL, "~">>}}

SepDocs ==
    {[BaseDoc EXCEPT !.class = "sep", !.body = SampleBody, !.esep = e, !.ssep = s] :
        e \in {"*", "|"}, s \in {"~", NL}}

\* the parsers a caller can build (builder.rs): the separators are distinct
Parsers ==
    {X12Parser_default, with_delimiters("|", "~", ">"), with_delimiters("*", NL, ">")}

\* documents laid out one record per line, as in the tests of the crate
\* (tests/structured_segments_tests.rs 153-163)
LineDocs ==
    {[BaseDoc EXCEPT !.class = "lines", !.body = b, !.lf = TRUE] :
        b \in {SampleBody, <<"GS", "ST", "SE", "GE">>, <<"IEA">>}}

\* a document whose elements are padded with blanks
PaddedBody ==
    <<wGS(<<"1">>), wST(<<" ", "8", "1", "0">>, <<"1", " ">>),
      <<sBIG, <<" ", "x", " ">>, <<" ">>>>, wSE(<<" ", "1">>), wGE(<<"1">>),
      wIEA(<<"1", " ">>)>>

PaddedDocs ==
    {[BaseDoc EXCEPT !.class = "padded", !.body = b] :
        b \in {PaddedBody, SubSeq(PaddedBody, 1, 3)}}

\* X12ParserBuilder::new().trim_whitespace(t).build() (builder.rs 50-74)
TrimParsers == {with_config("*", "~", ">", FALSE, t) : t \in BOOLEAN}

----------------------------------------------------------------------------
(* X12Parser::parse, one action per step of the call.                      *)

ParseInit ==
    /\ \/ /\ doc \in FreeDocs \cup WfDocs \cup HeaderDocs \cup EmptyDocs
                      \cup LineDocs
          /\ self = X12Parser_default
       \/ /\ doc \in SepDocs
          /\ self \in Parsers
       \/ /\ doc \in PaddedDocs
          /\ self \in TrimParsers
    /\ input = Render(doc)
    /\ pc = "start"
    /\ segments = <<>>
    /\ isa_segment = None
    /\ parser = self
    /\ idx = 0
    /\ functional_groups = <<>>
    /\ current_fg = None
    /\ current_transaction = None
    /\ result = [tag |-> "none"]
    /\ validation = [tag |-> "none"]
    /\ SchemaIdle /\ ElementIdle /\ PoIdle /\ PipelineIdle

Fail(r) ==
    /\ result' = r
    /\ pc' = "done"

\* x12.rs 112-136: split into records, parse the header, pick the parser
ParseStart ==
    /\ pc = "start"
    /\ LET segs == FilterNonBlank(StrSplit(input, self.segment_separator))
       IN  /\ segments' = segs
           /\ IF Len(segs) = 0
              THEN /\ Fail([tag |-> "Err", err |-> "InvalidSegmentFormat"])
                   /\ UNCHANGED <<isa_segment, parser, idx>>
              ELSE LET isa == parse_isa_segment(self, segs[1])
                       seps == extract_delimiters_from_isa(self, segs[1])
                   IN  IF isa.tag # "Ok"
                       THEN /\ Fail(isa)
                            /\ UNCHANGED <<isa_segment, parser, idx>>
                       ELSE IF seps.tag # "Ok"
                       THEN /\ Fail(seps)
                            /\ UNCHANGED <<isa_segment, parser, idx>>
                       ELSE /\ isa_segment' = Some(isa.val)
                            /\ parser' = ChooseParser(self, seps.val)
                            /\ idx' = 2
                            /\ pc' = "loop"
                            /\ UNCHANGED result
    /\ UNCHANGED <<self, input, doc, functional_groups, current_fg,
                   current_transaction, validation>>
    /\ UNCHANGED <<schemaVars, elementVars, poVars, pipelineVars>>

AtRecord == pc = "loop" /\ idx <= Len(segments)

CurSegment == parse_segment(parser, segments[idx])

Advance ==
    /\ idx' = idx + 1
    /\ pc' = "loop"
    /\ UNCHANGED <<self, input, doc, segments, isa_segment, parser, result,
                   validation>>
    /\ UNCHANGED <<schemaVars, elementVars, poVars, pipelineVars>>

\* x12.rs 142-151
OnGS ==
    /\ AtRecord
    /\ CurSegment.id = sGS
    /\ functional_groups' =
           IF IsSome(current_fg)
           THEN Append(functional_groups, Unwrap(current_fg))
           ELSE functional_groups
    /\ current_fg' = Some(FunctionalGroup(CurSegment))
    /\ UNCHANGED current_transaction
    /\ Advance

\* x12.rs 152-157
OnGE ==
    /\ AtRecord
    /\ CurSegment.id = sGE
    /\ IF IsSome(current_fg)
       THEN /\ functional_groups' =
                   Append(functional_groups,
                          [Unwrap(current_fg) EXCEPT !.ge_segment = Some(CurSegment)])
            /\ current_fg' = None
       ELSE UNCHANGED <<functional_groups, current_fg>>
    /\ UNCHANGED current_transaction
    /\ Advance

\* x12.rs 158-176
OnST ==
    /\ AtRecord
    /\ CurSegment.id = sST
    /\ LET fg == IF IsSome(current_transaction)
                 THEN PushTransaction(current_fg, Unwrap(current_transaction))
                 ELSE current_fg
           id == Get(CurSegment.elements, 0)
           cn == Get(CurSegment.elements, 1)
       IN  IF ~IsSome(id) \/ ~IsSome(cn)
           THEN /\ Fail([tag |-> "Err", err |-> "InvalidSegmentFormat"])
                /\ current_fg' = fg
                /\ current_transaction' = None
                /\ UNCHANGED <<self, input, doc, segments, isa_segment, parser,
                               idx, validation>>
                /\ UNCHANGED <<schemaVars, elementVars, poVars, pipelineVars>>
           ELSE /\ current_fg' = fg
                /\ current_transaction' =
                       Some(Transaction_new(<<CurSegment>>, Unwrap(id), Unwrap(cn)))
                /\ Advance
    /\ UNCHANGED functional_groups

\* a slip: the SE is pushed but the transaction is left open
OnSE_KeepOpen ==
    /\ AtRecord
    /\ CurSegment.id = sSE
    /\ current_transaction' =
           IF IsSome(current_transaction)
           THEN Some([Unwrap(current_transaction) EXCEPT
                          !.segments = Append(@, CurSegment)])
           ELSE current_transaction
    /\ UNCHANGED <<functional_groups, current_fg>>
    /\ Advance

\* x12.rs 177-184
OnSE ==
    /\ AtRecord
    /\ CurSegment.id = sSE
    /\ IF IsSome(current_transaction)
       THEN /\ current_fg' =
                   PushTransaction(current_fg,
                       [Unwrap(current_transaction) EXCEPT
                            !.segments = Append(@, CurSegment)])
            /\ current_transaction' = None
       ELSE UNCHANGED <<current_fg, current_transaction>>
    /\ UNCHANGED functional_groups
    /\ Advance

\* an arm that forgets to push the segment
OnOther_Drop ==
    /\ AtRecord
    /\ CurSegment.id \notin {sGS, sGE, sST, sSE}
    /\ UNCHANGED <<functional_groups, current_fg, current_transaction>>
    /\ Advance

\* x12.rs 185-189
OnOther ==
    /\ AtRecord
    /\ CurSegment.id \notin {sGS, sGE, sST, sSE}
    /\ current_transaction' =
           IF IsSome(current_transaction)
           THEN Some([Unwrap(current_transaction) EXCEPT
                          !.segments = Append(@, CurSegment)])
           ELSE current_transaction
    /\ UNCHANGED <<functional_groups, current_fg>>
    /\ Advance

\* segments.iter().find(|s| s.starts_with("IEA")).map(parse_segment)
RECURSIVE FindIEA(_)
FindIEA(segs) ==
    IF segs = <<>> THEN None
    ELSE IF StartsWith(Head(segs), sIEA) THEN Some(Head(segs))
    ELSE FindIEA(Tail(segs))

\* x12.rs 193-213: flush what is still open and build the result
ParseFinish ==
    /\ pc = "loop"
    /\ idx > Len(segments)
    /\ LET fg == IF IsSome(current_transaction)
                 THEN PushTransaction(current_fg, Unwrap(current_transaction))
                 ELSE current_fg
           groups == IF IsSome(fg) THEN Append(functional_groups, Unwrap(fg))
                     ELSE functional_groups
           iea == FindIEA(segments)
       IN  /\ current_transaction' = None
           /\ current_fg' = None
           /\ functional_groups' = groups
           /\ result' = [tag |-> "Ok",
                         val |-> [isa_segment |-> Unwrap(isa_segment),
                                  iea_segment |->
                                      IF IsSome(iea)
                                      THEN Some(parse_segment(parser, Unwrap(iea)))
                                      ELSE None,
                                  functional_groups |-> groups]]
    /\ pc' = "parsed"
    /\ UNCHANGED <<self, input, doc, segments, isa_segment, parser, idx, validation>>
    /\ UNCHANGED <<schemaVars, elementVars, poVars, pipelineVars>>

----------------------------------------------------------------------------
(* X12Parser::validate (x12.rs 216-283): the first violation is returned.   *)

Ok == [tag |-> "Ok"]
Err(kind, msg) == [tag |-> "Err", err |-> kind, msg |-> msg]

\* x12.rs 233-240, 256-263: compared only when both elements exist
ControlMismatch(header, hpos, trailer, tpos) ==
    /\ IsSome(Get(header.elements, hpos))
    /\ IsSome(Get(trailer.elements, tpos))
    /\ Unwrap(Get(header.elements, hpos)) # Unwrap(Get(trailer.elements, tpos))

\* x12.rs 267-279
RECURSIVE ValidateTransactions(_)
ValidateTransactions(txs) ==
    IF txs = <<>> THEN Ok
    ELSE LET segs == Head(txs).segments
         IN  IF Len(segs) > 0 /\ segs[1].id # sST
             THEN Err("MissingRequiredSegment", "ST")
             ELSE IF Len(segs) > 0 /\ segs[Len(segs)].id # sSE
             THEN Err("MissingRequiredSegment", "SE")
             ELSE ValidateTransactions(Tail(txs))

\* x12.rs 244-280
RECURSIVE ValidateGroups(_)
ValidateGroups(fgs) ==
    IF fgs = <<>> THEN Ok
    ELSE LET fg == Head(fgs)
         IN  IF fg.gs_segment.id # sGS
             THEN Err("MissingRequiredSegment", "GS")
             ELSE IF IsSome(fg.ge_segment) /\ Unwrap(fg.ge_segment).id # sGE
             THEN Err("InvalidControlStructure", "")
             ELSE IF /\ IsSome(fg.ge_segment)
                     /\ ControlMismatch(fg.gs_segment, 5, Unwrap(fg.ge_segment), 1)
             THEN Err("ValidationError", "GE control number doesn't match GS")
             ELSE LET r == ValidateTransactions(fg.transactions)
                  IN  IF r.tag # "Ok" THEN r ELSE ValidateGroups(Tail(fgs))

validate(interchange) ==
    IF interchange.isa_segment.id # sISA
    THEN Err("MissingRequiredSegment", "ISA")
    ELSE IF Len(interchange.isa_segment.elements) < IsaMinElements
    THEN Err("InvalidSegmentFormat", "ISA segment must have at least 15 elements")
    ELSE IF /\ IsSome(interchange.iea_segment)
            /\ Unwrap(interchange.iea_segment).id # sIEA
    THEN Err("InvalidControlStructure", "")
    ELSE IF /\ IsSome(interchange.iea_segment)
            /\ ControlMismatch(interchange.isa_segment, 12,
                               Unwrap(interchange.iea_segment), 1)
    THEN Err("ValidationError", "IEA control number doesn't match ISA")
    ELSE ValidateGroups(interchange.functional_groups)

\* the caller validates the interchange parse returned
Validate ==
    /\ pc = "parsed"
    /\ validation' = validate(result.val)
    /\ pc' = "done"
    /\ UNCHANGED <<self, input, doc, segments, isa_segment, parser, idx,
                   functional_groups, current_fg, current_transaction, result>>
    /\ UNCHANGED <<schemaVars, elementVars, poVars, pipelineVars>>

Init == ParseInit

Next ==
    \/ ParseStart
    \/ OnGS
    \/ OnGE
    \/ OnST
    \/ OnSE
    \/ OnOther
    \/ ParseFinish
    \/ Validate

Spec == Init /\ [][Next]_vars

----------------------------------------------------------------------------
(* Properties of X12Parser::parse and X12Parser::validate.                  *)

Parsed == pc \in {"parsed", "done"} /\ result.tag = "Ok"

\* the records after the header as the loop reads them
Recs == [i \in 1..(Len(segments) - 1) |-> parse_segment(parser, segments[i + 1])]

GSIdx == {i \in DOMAIN Recs : Recs[i].id = sGS}
NthGS(g) == CHOOSE i \in GSIdx : Cardinality({j \in GSIdx : j < i}) = g - 1
GroupEnd(g) == IF g < Cardinality(GSIdx) THEN NthGS(g + 1) - 1 ELSE Len(Recs)
IsValidST(r) == r.id = sST /\ Len(r.elements) >= 2
ExpectedSTs(g) == SelectSeq(SubSeq(Recs, NthGS(g) + 1, GroupEnd(g)), IsValidST)
ActualSTs(fg) == [j \in 1..Len(fg.transactions) |-> fg.transactions[j].segments[1]]

\* C1: every ST record read after a group header is the first segment of
\* exactly one transaction of the result, and that transaction is owned by the
\* group of the most recent GS, whatever trailers are missing or early.
C1_NoTransactionLost ==
    (Parsed /\ Len(segments) > 1 /\ Recs[1].id = sGS) =>
        LET groups == result.val.functional_groups
        IN  /\ Len(groups) = Cardinality(GSIdx)
            /\ \A g \in 1..Len(groups) : ActualSTs(groups[g]) = ExpectedSTs(g)

RECURSIVE SumLens(_)
SumLens(txs) == IF txs = <<>> THEN 0 ELSE Len(Head(txs).segments) + SumLens(Tail(txs))

RECURSIVE TotalTxSegments(_)
TotalTxSegments(fgs) ==
    IF fgs = <<>> THEN 0
    ELSE SumLens(Head(fgs).transactions) + TotalTxSegments(Tail(fgs))

IEACount == Cardinality({i \in DOMAIN Recs : Recs[i].id = sIEA})

\* a document of the shape ISA, groups of GS (ST ... SE)+ GE, IEA, split by the
\* parser on the separator the document was written with
WellFormedInput == doc.class = "wf" /\ self.segment_separator = doc.ssep

TxControlsMatch(tx) ==
    LET segs == tx.segments
    IN  Get(segs[Len(segs)].elements, 1) = Get(segs[1].elements, 1)

GroupControlsMatch(fg) ==
    /\ Get(Unwrap(fg.ge_segment).elements, 1) = Get(fg.gs_segment.elements, 5)
    /\ \A j \in 1..Len(fg.transactions) : TxControlsMatch(fg.transactions[j])

AllControlsMatch(ic) ==
    /\ Get(Unwrap(ic.iea_segment).elements, 1) = Get(ic.isa_segment.elements, 12)
    /\ \A g \in 1..Len(ic.functional_groups) :
           GroupControlsMatch(ic.functional_groups[g])

\* C3: on a well-formed interchange with all trailers present, validate
\* returns Ok exactly when the trailer control number equals the header
\* control number at the interchange, group and transaction level.
C3_ControlNumberSymmetry ==
    (pc = "done" /\ result.tag = "Ok" /\ WellFormedInput) =>
        (validation.tag = "Ok" <=> AllControlsMatch(result.val))

\* the positional elements of the first record after its identifier
HeaderElements == Len(StrSplit(segments[1], "*")) - 1
HeaderId == StrTrim(StrSplit(segments[1], "*")[1])

\* C4: empty input, or a first record with fewer than 16 elements after the
\* identifier, makes parse return Err(InvalidSegmentFormat), never Ok or a panic.
C4_ShortHeaderIsFormatError ==
    (pc # "start" /\ (Len(segments) = 0 \/ HeaderElements < IsaMinPieces)) =>
        (result.tag = "Err" /\ result.err = "InvalidSegmentFormat")

\* the segments the sample body was written as
SegmentOf(words) == Segment_new(words[1], Tail(words))

SampleGroups ==
    <<[gs_segment |-> SegmentOf(KindWords("GS")),
       ge_segment |-> Some(SegmentOf(KindWords("GE"))),
       transactions |->
           <<Transaction_new(<<SegmentOf(KindWords("ST")), SegmentOf(KindWords("BIG")),
                               SegmentOf(KindWords("SE"))>>, s810, <<"1">>)>>]>>

\* C5: a document written with separators other than the configured ones is
\* split with the separators of its header and parses to the same segments as
\* the same document written with the defaults.
C5_DiscoveredSeparatorsUsed ==
    (pc = "done" /\ doc.class = "sep"
        /\ (doc.esep # self.element_separator \/ doc.ssep # self.segment_separator)) =>
        /\ result.tag = "Ok"
        /\ result.val.functional_groups = SampleGroups
        /\ result.val.iea_segment = Some(SegmentOf(KindWords("IEA")))

\* C6: a first record whose identifier is not ISA is never accepted as the
\* interchange header.
C6_FirstRecordMustBeISA ==
    (pc \in {"parsed", "done"} /\ Len(segments) > 0 /\ HeaderId # sISA) =>
        result.tag # "Ok"

ExpectedTx(g, j) ==
    LET words == WfTx(g, j, doc)
    IN  Transaction_new([i \in 1..Len(words) |-> SegmentOf(words[i])],
                        words[1][2], Digit((g - 1) * doc.t + j))

\* C7: a well-formed document with matching control numbers parses to its k
\* groups in order, each holding its own transactions in order with
\* transaction_set_id = ST01 and control_number = ST02, and validates Ok.
C7_WellFormedDocumentParses ==
    (pc = "done" /\ WellFormedInput /\ doc.iea_ok /\ doc.ge_ok /\ doc.se_ok) =>
        /\ result.tag = "Ok"
        /\ Len(result.val.functional_groups) = doc.k
        /\ \A g \in 1..doc.k :
               LET fg == result.val.functional_groups[g]
               IN  /\ fg.gs_segment = SegmentOf(wGS(Digit(g)))
                   /\ Len(fg.transactions) = doc.t
                   /\ \A j \in 1..doc.t :
                          /\ fg.transactions[j] = ExpectedTx(g, j)
                          /\ fg.transactions[j].transaction_set_id =
                                 fg.transactions[j].segments[1].elements[1]
                          /\ fg.transactions[j].control_number =
                                 fg.transactions[j].segments[1].elements[2]
        /\ validation.tag = "Ok"

C7_Witness ==
    /\ pc = "done" /\ WellFormedInput /\ doc.iea_ok /\ doc.ge_ok /\ doc.se_ok
    /\ doc.k = 2 /\ doc.t = 2
    /\ Len(result.val.functional_groups) = 2
    /\ Len(result.val.functional_groups[2].transactions) = 2
    /\ validation.tag = "Ok"

----------------------------------------------------------------------------
(* The schema engine (models/schema_engine.rs).  Segment IDs, transaction  *)
(* types and versions are only compared for equality there, so they are    *)
(* modelled as strings.                                                    *)

\* longest segment-ID sequence handed to validate_transaction_structure
MaxSegs == 4

\* most trading-partner agreements registered on the engine
MaxAgreements == 1

X12Versions == {"V4010", "V5010", "V8010"}

SegmentDependency(depends_on, dependency_type) ==
    [depends_on |-> depends_on, dependency_type |-> dependency_type]

SegmentSchema(segment_id, requirement, max_use, hierarchy_level, dependencies) ==
    [segment_id |-> segment_id, requirement |-> requirement, max_use |-> max_use,
     hierarchy_level |-> hierarchy_level, dependencies |-> dependencies]

TransactionSetSchema(transaction_type, version, schema_segments) ==
    [transaction_type |-> transaction_type, version |-> version,
     segments |-> schema_segments, trading_partner_agreements |-> <<>>]

\* schema_engine.rs 208-414: the fifteen entries of the 850 catalog, in order
create_850_schema(version) ==
    TransactionSetSchema("850", version, <<
        SegmentSchema("ST", "Mandatory", Some(1), 0, <<>>),
        SegmentSchema("BEG", "Mandatory", Some(1), 0,
                      <<SegmentDependency("ST", "MustFollow")>>),
        SegmentSchema("CUR", "Optional", Some(1), 0, <<>>),
        SegmentSchema("REF", "Optional", None, 0, <<>>),
        SegmentSchema("PER", "Optional", Some(3), 0, <<>>),
        SegmentSchema("DTM", "Optional", Some(10), 0, <<>>),
        SegmentSchema("N1", "Optional", Some(200), 1, <<>>),
        SegmentSchema("N2", "Optional", Some(2), 1,
                      <<SegmentDependency("N1", "RequiredIf")>>),
        SegmentSchema("N3", "Optional", Some(2), 1,
                      <<SegmentDependency("N1", "RequiredIf")>>),
        SegmentSchema("N4", "Optional", Some(1), 1,
                      <<SegmentDependency("N1", "RequiredIf")>>),
        SegmentSchema("PO1", "Mandatory", Some(100000), 1, <<>>),
        SegmentSchema("CUR", "Optional", Some(1), 1,
                      <<SegmentDependency("PO1", "RequiredIf")>>),
        SegmentSchema("PID", "Optional", Some(1000), 1,
                      <<SegmentDependency("PO1", "RequiredIf")>>),
        SegmentSchema("CTT", "Optional", Some(1), 2, <<>>),
        SegmentSchema("SE", "Mandatory", Some(1), 2, <<>>) >>)

\* schema_engine.rs 417-462: these catalogs are registered with no segments
create_810_schema(version) == TransactionSetSchema("810", version, <<>>)
create_997_schema(version) == TransactionSetSchema("997", version, <<>>)
create_856_schema(version) == TransactionSetSchema("856", version, <<>>)
create_860_schema(version) == TransactionSetSchema("860", version, <<>>)

TransactionTypes == {"850", "810", "997", "856", "860"}

ElementMasterDefinition(element_id, data_type, min_len, max_len, codes) ==
    [element_id |-> element_id, data_type |-> data_type,
     min_length |-> min_len, max_length |-> max_len,
     version_implementations |-> codes]

\* schema_engine.rs 465-546: elements 98 and 100, with the valid codes of
\* each version (None where the version declares no list)
initialize_element_dictionary ==
    [id \in {98, 100} |->
        IF id = 98
        THEN ElementMasterDefinition(98, "ID", Some(2), Some(3),
                 [v \in X12Versions |->
                     CASE v = "V4010" -> Some({"BY", "SE", "BT", "ST", "SU"})
                       [] v = "V5010" ->
                              Some({"BY", "SE", "BT", "ST", "SU", "VN"})
                       [] v = "V8010" ->
                              Some({"BY", "SE", "BT", "ST", "SU", "VN", "3P"})])
        ELSE ElementMasterDefinition(100, "ID", Some(3), Some(3),
                 [v \in X12Versions |->
                     IF v = "V4010"
                     THEN Some({"USD", "CAD", "EUR", "GBP", "JPY"})
                     ELSE None])]

\* SchemaEngine::new: every type registered for every version, then the
\* element dictionary is filled
SchemaEngine_new ==
    [transaction_sets |->
        [k \in TransactionTypes \X X12Versions |->
            CASE k[1] = "850" -> create_850_schema(k[2])
              [] k[1] = "810" -> create_810_schema(k[2])
              [] k[1] = "997" -> create_997_schema(k[2])
              [] k[1] = "856" -> create_856_schema(k[2])
              [] k[1] = "860" -> create_860_schema(k[2])],
     element_dictionary |-> initialize_element_dictionary]

get_transaction_schema(eng, transaction_type, version) ==
    IF <<transaction_type, version>> \in DOMAIN eng.transaction_sets
    THEN Some(eng.transaction_sets[<<transaction_type, version>>])
    ELSE None

ValidationResult(result_type, message, segment_position, element_position) ==
    [result_type |-> result_type, message |-> message,
     segment_position |-> segment_position,
     element_position |-> element_position]

\* schema.segments.iter().find(..): the first entry with that ID
RECURSIVE FindFrom(_, _, _)
FindFrom(schemas, segment_id, i) ==
    IF i > Len(schemas) THEN None
    ELSE IF schemas[i].segment_id = segment_id THEN Some(schemas[i])
    ELSE FindFrom(schemas, segment_id, i + 1)

FindSegmentSchema(schema, segment_id) == FindFrom(schema.segments, segment_id, 1)

\* segments[..position].iter().any(|s| s == id), position counted from 0
FoundBefore(segs, position, id) == \E i \in 1..position : segs[i] = id

\* segments.contains(id)
Contains(segs, id) == \E i \in 1..Len(segs) : segs[i] = id

\* a slip: only the segment immediately before is looked at
RECURSIVE CheckDependencies_Adjacent(_, _, _, _, _)
CheckDependencies_Adjacent(deps, i, segs, position, segment_id) ==
    IF i > Len(deps) THEN <<>>
    ELSE (IF /\ deps[i].dependency_type = "MustFollow"
             /\ ~(position >= 1 /\ segs[position] = deps[i].depends_on)
          THEN <<ValidationResult("Error",
                     <<"Segment", segment_id, "requires", deps[i].depends_on,
                       "to appear before it">>,
                     Some(position), None)>>
          ELSE <<>>)
         \o CheckDependencies_Adjacent(deps, i + 1, segs, position, segment_id)

\* schema_engine.rs 604-622: only MustFollow is checked
RECURSIVE CheckDependencies(_, _, _, _, _)
CheckDependencies(deps, i, segs, position, segment_id) ==
    IF i > Len(deps) THEN <<>>
    ELSE (IF /\ deps[i].dependency_type = "MustFollow"
             /\ ~FoundBefore(segs, position, deps[i].depends_on)
          THEN <<ValidationResult("Error",
                     <<"Segment", segment_id, "requires", deps[i].depends_on,
                       "to appear before it">>,
                     Some(position), None)>>
          ELSE <<>>)
         \o CheckDependencies(deps, i + 1, segs, position, segment_id)

\* a slip: the occurrence that reaches the limit is reported as well
ScanSegment_AtLimit(schema, segs, position, st) ==
    LET segment_id == segs[position + 1]
        found == FindSegmentSchema(schema, segment_id)
    IN  IF IsSome(found)
        THEN LET segment_schema == Unwrap(found)
                 counts == [st.segment_counts EXCEPT ![segment_id] = @ + 1]
                 over ==
                     IF /\ IsSome(segment_schema.max_use)
                        /\ counts[segment_id] >= Unwrap(segment_schema.max_use)
                     THEN <<ValidationResult("Error",
                                <<"Segment", segment_id,
                                  "exceeds maximum usage of",
                                  ToString(Unwrap(segment_schema.max_use)),
                                  "at position", ToString(position + 1)>>,
                                Some(position), None)>>
                     ELSE <<>>
                 back ==
                     IF segment_schema.hierarchy_level < st.current_hierarchy
                     THEN <<ValidationResult("Warning",
                                <<"Segment", segment_id,
                                  "appears to move backwards in hierarchy at position",
                                  ToString(position + 1)>>,
                                Some(position), None)>>
                     ELSE <<>>
                 deps == CheckDependencies(segment_schema.dependencies, 1, segs,
                                           position, segment_id)
             IN  [results |-> st.results \o over \o back \o deps,
                  current_hierarchy |-> segment_schema.hierarchy_level,
                  segment_counts |-> counts]
        ELSE [st EXCEPT !.results =
                 @ \o <<ValidationResult("Warning",
                            <<"Unknown segment", segment_id, "at position",
                              ToString(position + 1)>>,
                            Some(position), None)>>]

\* schema_engine.rs 571-632: the loop body for the segment at `position`
\* (counted from 0); st holds results, current_hierarchy and segment_counts
ScanSegment(schema, segs, position, st) ==
    LET segment_id == segs[position + 1]
        found == FindSegmentSchema(schema, segment_id)
    IN  IF IsSome(found)
        THEN LET segment_schema == Unwrap(found)
                 counts == [st.segment_counts EXCEPT ![segment_id] = @ + 1]
                 over ==
                     IF /\ IsSome(segment_schema.max_use)
                        /\ counts[segment_id] > Unwrap(segment_schema.max_use)
                     THEN <<ValidationResult("Error",
                                <<"Segment", segment_id,
                                  "exceeds maximum usage of",
                                  ToString(Unwrap(segment_schema.max_use)),
                                  "at position", ToString(position + 1)>>,
                                Some(position), None)>>
                     ELSE <<>>
                 back ==
                     IF segment_schema.hierarchy_level < st.current_hierarchy
                     THEN <<ValidationResult("Warning",
                                <<"Segment", segment_id,
                                  "appears to move backwards in hierarchy at position",
                                  ToString(position + 1)>>,
                                Some(position), None)>>
                     ELSE <<>>
                 deps == CheckDependencies(segment_schema.dependencies, 1, segs,
                                           position, segment_id)
             IN  [results |-> st.results \o over \o back \o deps,
                  current_hierarchy |-> segment_schema.hierarchy_level,
                  segment_counts |-> counts]
        ELSE [st EXCEPT !.results =
                 @ \o <<ValidationResult("Warning",
                            <<"Unknown segment", segment_id, "at position",
                              ToString(position + 1)>>,
                            Some(position), None)>>]

RECURSIVE ScanFrom(_, _, _, _)
ScanFrom(schema, segs, position, st) ==
    IF position >= Len(segs) THEN st
    ELSE ScanFrom(schema, segs, position + 1,
                  ScanSegment(schema, segs, position, st))

\* a slip: the requirement of the catalog entry is not looked at
MissingMandatory_AnyRequirement(schema, segs) ==
    LET missing == SelectSeq(schema.segments,
                             LAMBDA e : ~Contains(segs, e.segment_id))
    IN  [i \in 1..Len(missing) |->
            ValidationResult("Error",
                <<"Missing mandatory segment", missing[i].segment_id>>,
                None, None)]

\* schema_engine.rs 634-646
MissingMandatory(schema, segs) ==
    LET missing == SelectSeq(schema.segments,
                             LAMBDA e : /\ e.requirement = "Mandatory"
                                        /\ ~Contains(segs, e.segment_id))
    IN  [i \in 1..Len(missing) |->
            ValidationResult("Error",
                <<"Missing mandatory segment", missing[i].segment_id>>,
                None, None)]

\* schema_engine.rs 561-649
validate_transaction_structure(eng, transaction_type, version, segs) ==
    LET found == get_transaction_schema(eng, transaction_type, version)
    IN  IF ~IsSome(found)
        THEN Err("ValidationError",
                 <<"Unknown transaction type:", transaction_type,
                   "version:", version>>)
        ELSE LET schema == Unwrap(found)
                 st0 == [results |-> <<>>, current_hierarchy |-> 0,
                         segment_counts |->
                             [id \in {segs[i] : i \in 1..Len(segs)} |-> 0]]
                 scanned == ScanFrom(schema, segs, 0, st0)
             IN  [tag |-> "Ok",
                  val |-> scanned.results \o MissingMandatory(schema, segs)]

\* schema_engine.rs 81-93: the customization types used here
MakeMandatory == [kind |-> "MakeMandatory"]
MakeOptional == [kind |-> "MakeOptional"]
ExtendValidCodes(codes) == [kind |-> "ExtendValidCodes", codes |-> codes]

SchemaCustomization(segment_id, element_position, customization_type) ==
    [segment_id |-> segment_id, element_position |-> element_position,
     customization_type |-> customization_type]

TradingPartnerAgreement(partner_id, customizations) ==
    [partner_id |-> partner_id, customizations |-> customizations]

\* a slip: the schema is rebuilt around the agreement and its segment list
\* is lost
add_trading_partner_agreement_Rebuild(eng, transaction_type, version, agreement) ==
    IF <<transaction_type, version>> \in DOMAIN eng.transaction_sets
    THEN [res |-> Ok,
          engine |->
              [eng EXCEPT !.transaction_sets[<<transaction_type, version>>] =
                  [TransactionSetSchema(transaction_type, version, <<>>)
                       EXCEPT !.trading_partner_agreements =
                                  Append(eng.transaction_sets[
                                             <<transaction_type, version>>]
                                             .trading_partner_agreements,
                                         agreement)]]]
    ELSE [res |-> Err("ValidationError",
                      <<"Transaction schema not found:", transaction_type,
                        version>>),
          engine |-> eng]

\* schema_engine.rs 652-664: the agreement is appended, nothing else is done
add_trading_partner_agreement(eng, transaction_type, version, agreement) ==
    IF <<transaction_type, version>> \in DOMAIN eng.transaction_sets
    THEN [res |-> Ok,
          engine |->
              [eng EXCEPT !.transaction_sets[<<transaction_type, version>>]
                               .trading_partner_agreements =
                              Append(@, agreement)]]
    ELSE [res |-> Err("ValidationError",
                      <<"Transaction schema not found:", transaction_type,
                        version>>),
          engine |-> eng]

\* the segment IDs the sequences under validation are drawn from; ZZ is in
\* no catalog
SegmentIds == {"ST", "BEG", "REF", "PO1", "CTT", "SE", "ZZ"}

RECURSIVE SeqsUpTo(_, _)
SeqsUpTo(S, n) ==
    IF n = 0 THEN {<<>>}
    ELSE LET shorter == SeqsUpTo(S, n - 1)
         IN  shorter \cup {Append(q, x) : q \in shorter, x \in S}

\* the sequence of test_transaction_structure_validation
SampleSegments == <<"ST", "BEG", "PO1", "SE">>

Requests ==
    {[transaction_type |-> "850", version |-> "V4010", segments |-> q] :
        q \in SeqsUpTo(SegmentIds, MaxSegs)}
    \cup
    {[transaction_type |-> t, version |-> v, segments |-> SampleSegments] :
        t \in {"850", "810", "999"}, v \in {"V4010", "V8010"}}

\* P1 tightens the optional CTT and widens the codes of BEG01; P2 asks for
\* CTT to be mandatory and optional at once
SampleAgreements ==
    {TradingPartnerAgreement("P1",
         <<SchemaCustomization("CTT", None, MakeMandatory),
           SchemaCustomization("BEG", Some(1), ExtendValidCodes({<<"9", "9">>}))>>),
     TradingPartnerAgreement("P2",
         <<SchemaCustomization("CTT", None, MakeMandatory),
           SchemaCustomization("CTT", None, MakeOptional)>>)}

\* number of agreements registered on the engine
RegisteredAgreements(eng) ==
    Cardinality({<<k, i>> \in (DOMAIN eng.transaction_sets) \X (1..MaxAgreements) :
                    i <= Len(eng.transaction_sets[k].trading_partner_agreements)})

SchemaInit ==
    /\ engine = SchemaEngine_new
    /\ request \in Requests
    /\ outcome = [op |-> "none"]
    /\ ParseIdle /\ ElementIdle /\ PoIdle /\ PipelineIdle

\* a caller validates the structure of the transaction
ValidateStructure ==
    /\ outcome' = [op |-> "validate",
                   res |-> validate_transaction_structure(engine,
                               request.transaction_type, request.version,
                               request.segments)]
    /\ UNCHANGED <<engine, request>>
    /\ UNCHANGED <<parseVars, elementVars, poVars, pipelineVars>>

\* the partner has an agreement registered for the type and version
HasPartner(eng, transaction_type, version, partner_id) ==
    LET registered == eng.transaction_sets[<<transaction_type, version>>]
                          .trading_partner_agreements
    IN  \E i \in 1..Len(registered) : registered[i].partner_id = partner_id

\* a slip: a schema is created for a type the catalog does not hold
AddAgreement_Insert ==
    /\ \E t \in {"850", "999"}, agreement \in SampleAgreements :
          LET r == add_trading_partner_agreement(engine, t, "V4010", agreement)
          IN  /\ r.res.tag = "Ok" =>
                     /\ RegisteredAgreements(engine) < MaxAgreements
                     /\ ~HasPartner(engine, t, "V4010", agreement.partner_id)
              /\ engine' =
                     IF r.res.tag = "Ok" THEN r.engine
                     ELSE [transaction_sets |->
                               [k \in DOMAIN engine.transaction_sets
                                       \cup {<<t, "V4010">>} |->
                                   IF k \in DOMAIN engine.transaction_sets
                                   THEN engine.transaction_sets[k]
                                   ELSE TransactionSetSchema(t, "V4010", <<>>)],
                           element_dictionary |-> engine.element_dictionary]
              /\ outcome' = [op |-> "add", res |-> r.res]
    /\ UNCHANGED request
    /\ UNCHANGED <<parseVars, elementVars, poVars, pipelineVars>>

\* a caller registers an agreement for a transaction type and version; a
\* partner registers once, and the number of agreements the engine holds is
\* kept within MaxAgreements
AddAgreement ==
    /\ \E t \in {"850", "999"}, agreement \in SampleAgreements :
          LET r == add_trading_partner_agreement(engine, t, "V4010", agreement)
          IN  /\ r.res.tag = "Ok" =>
                     /\ RegisteredAgreements(engine) < MaxAgreements
                     /\ ~HasPartner(engine, t, "V4010", agreement.partner_id)
              /\ engine' = r.engine
              /\ outcome' = [op |-> "add", res |-> r.res]
    /\ UNCHANGED request
    /\ UNCHANGED <<parseVars, elementVars, poVars, pipelineVars>>

SchemaNext ==
    \/ ValidateStructure
    \/ AddAgreement

SpecSchema == SchemaInit /\ [][SchemaNext]_vars

----------------------------------------------------------------------------
(* Properties of the schema engine.                                        *)

Errors(results) == SelectSeq(results, LAMBDA r : r.result_type = "Error")

Occurrences(segs, id) == Cardinality({i \in 1..Len(segs) : segs[i] = id})

\* an 850 sequence that complies with the catalog except that BEG is absent
CompliantExceptBEG(req) ==
    /\ req.transaction_type = "850"
    /\ Len(req.segments) > 0
    /\ req.segments[1] = "ST"
    /\ ~Contains(req.segments, "BEG")
    /\ \A e \in {"ST", "PO1", "SE"} : Contains(req.segments, e)
    /\ \A i \in 1..Len(req.segments) :
          LET found == FindSegmentSchema(create_850_schema(req.version),
                                         req.segments[i])
          IN  /\ IsSome(found)
              /\ IsSome(Unwrap(found).max_use) =>
                    Occurrences(req.segments, req.segments[i])
                        <= Unwrap(Unwrap(found).max_use)

\* C8: for an 850 segment-ID sequence that is compliant except that BEG does
\* not occur, validate_transaction_structure returns diagnostics with exactly
\* one Error, and that Error names BEG as the missing mandatory segment.
C8_MissingBEGIsTheOnlyError ==
    (outcome.op = "validate" /\ CompliantExceptBEG(request)) =>
        /\ outcome.res.tag = "Ok"
        /\ Len(Errors(outcome.res.val)) = 1
        /\ Errors(outcome.res.val)[1].message =
               <<"Missing mandatory segment", "BEG">>

C8_Witness ==
    /\ outcome.op = "validate"
    /\ CompliantExceptBEG(request)
    /\ request.segments = <<"ST", "PO1", "CTT", "SE">>
    /\ Len(outcome.res.val) = 1

----------------------------------------------------------------------------
(* Element validation: the segment registry (models/segment_definition.rs), *)
(* ValidatedElement (models/validated_element.rs), the validating segment   *)
(* parser (parsers/validating_parser.rs) and the element loop of            *)
(* parse_with_schema (parsers/schema_validating_parser.rs).  Values are     *)
(* sequences of characters, as in the tokenizer.                            *)

\* most elements of a segment handed to element validation
MaxElements == 5

sBEG == <<"B", "E", "G">>
sCUR == <<"C", "U", "R">>
sPO1 == <<"P", "O", "1">>
sREF == <<"R", "E", "F">>
sN1 == <<"N", "1">>

Digits == {"0", "1", "2", "3", "4", "5", "6", "7", "8", "9"}

\* chars().all(|c| c.is_ascii_digit())
AllDigits(v) == \A i \in 1..Len(v) : v[i] \in Digits

DigitValue(c) == CHOOSE n \in 0..9 : ToString(n) = c

\* str::parse of a string of digits
RECURSIVE ToNat(_)
ToNat(v) ==
    IF Len(v) = 0 THEN 0
    ELSE 10 * ToNat(SubSeq(v, 1, Len(v) - 1)) + DigitValue(v[Len(v)])

\* v[a..b] of Rust: the characters at offsets a .. b-1
Slice(v, a, b) == SubSeq(v, a + 1, b)

LowerCase(c) ==
    CASE c = "I" -> "i" [] c = "N" -> "n" [] c = "F" -> "f" [] c = "T" -> "t"
      [] c = "Y" -> "y" [] c = "A" -> "a" [] c = "E" -> "e" [] OTHER -> c

\* digits, then optionally an exponent: e or E, an optional sign, digits
DecimalTail(v) ==
    \/ Len(v) = 0
    \/ /\ Len(v) >= 2
       /\ LowerCase(v[1]) = "e"
       /\ LET d == IF v[2] \in {"+", "-"} THEN SubSeq(v, 3, Len(v))
                   ELSE SubSeq(v, 2, Len(v))
          IN  Len(d) > 0 /\ AllDigits(d)

\* an unsigned decimal literal: digits with at most one point and at least
\* one digit, then an optional exponent
UnsignedDecimal(v) ==
    \E k \in 0..Len(v) :
        LET mant == SubSeq(v, 1, k)
            pts == {i \in 1..k : mant[i] = "."}
        IN  /\ \A i \in 1..k : mant[i] \in Digits \cup {"."}
            /\ Cardinality(pts) <= 1
            /\ \E i \in 1..k : mant[i] \in Digits
            /\ DecimalTail(SubSeq(v, k + 1, Len(v)))

\* value.parse::<f64>().is_ok()
ParsesAsF64(v) ==
    LET u == IF Len(v) > 0 /\ v[1] \in {"+", "-"} THEN SubSeq(v, 2, Len(v)) ELSE v
        low == [i \in 1..Len(u) |-> LowerCase(u[i])]
    IN  \/ low \in {<<"i", "n", "f">>, <<"i", "n", "f", "i", "n", "i", "t", "y">>, <<"n", "a", "n">>}
        \/ UnsignedDecimal(u)

ElementDefinition(element_id, name, data_type, min_len, max_len, req, codes) ==
    [element_id |-> element_id, name |-> name, data_type |-> data_type,
     min_length |-> min_len, max_length |-> max_len,
     requirement |-> req, valid_codes |-> codes]

SegmentDefinition(id, elements) == [id |-> id, elements |-> elements]

\* segment_definition.rs 120-194
beg_definition ==
    SegmentDefinition(sBEG, <<
        ElementDefinition(353, "Transaction Set Purpose Code", "ID", Some(2),
                          Some(2), "Mandatory", Some(<<<<"0", "0">>, <<"0", "1">>, <<"0", "4">>, <<"0", "5">>>>)),
        ElementDefinition(92, "Purchase Order Type Code", "ID", Some(2),
                          Some(2), "Mandatory", Some(<<<<"N", "E">>, <<"R", "L">>, <<"S", "A">>>>)),
        ElementDefinition(324, "Purchase Order Number", "AN", Some(1),
                          Some(22), "Mandatory", None),
        ElementDefinition(328, "Release Number", "AN", Some(1), Some(30),
                          "Optional", None),
        ElementDefinition(373, "Date", "DT", Some(8), Some(8), "Mandatory",
                          None) >>)

\* segment_definition.rs 196-252
cur_definition ==
    SegmentDefinition(sCUR, <<
        ElementDefinition(98, "Entity Identifier Code", "ID", Some(2), Some(3),
                          "Mandatory", Some(<<<<"B", "Y">>, <<"S", "E">>, <<"P", "R">>, <<"P", "E">>>>)),
        ElementDefinition(100, "Currency Code", "ID", Some(3), Some(3),
                          "Mandatory", Some(<<<<"U", "S", "D">>, <<"C", "A", "D">>, <<"E", "U", "R">>, <<"G", "B", "P">>, <<"J", "P", "Y">>>>)),
        ElementDefinition(280, "Exchange Rate", "R", Some(4), Some(10),
                          "Optional", None) >>)

\* segment_definition.rs 254-288
po1_definition ==
    SegmentDefinition(sPO1, <<
        ElementDefinition(350, "Assigned Identification", "AN", Some(1),
                          Some(20), "Optional", None),
        ElementDefinition(330, "Quantity Ordered", "R", Some(1), Some(15),
                          "Mandatory", None) >>)

\* segment_definition.rs 290-328
ref_definition ==
    SegmentDefinition(sREF, <<
        ElementDefinition(128, "Reference Identification Qualifier", "ID",
                          Some(2), Some(3), "Mandatory", Some(<<<<"D", "P">>, <<"I", "A">>, <<"P", "D">>>>)),
        ElementDefinition(127, "Reference Identification", "AN", Some(1),
                          Some(50), "Optional", None) >>)

\* SegmentRegistry::new: BEG, CUR, REF and PO1, each for every version
SegmentRegistry_new ==
    [definitions |->
        [k \in X12Versions \X {sBEG, sCUR, sREF, sPO1} |->
            CASE k[2] = sBEG -> beg_definition
              [] k[2] = sCUR -> cur_definition
              [] k[2] = sREF -> ref_definition
              [] k[2] = sPO1 -> po1_definition]]

get_definition(registry, version, segment_id) ==
    IF <<version, segment_id>> \in DOMAIN registry.definitions
    THEN Some(registry.definitions[<<version, segment_id>>])
    ELSE None

\* the text of an element error: the fields the message is formatted from
\* (position is None where the message does not print one)
ElementMessage(text, def, position, value) ==
    [text |-> text, element_id |-> def.element_id, name |-> def.name,
     position |-> position, value |-> value]

ValidatedElement_new(definition, value, position) ==
    [definition |-> definition, value |-> value, position |-> position]

ElementError(el, text) ==
    Err("ValidationError",
        ElementMessage(text, el.definition, Some(el.position), el.value))

\* validated_element.rs 83-184
validate_data_type(el, value) ==
    LET t == el.definition.data_type
    IN  CASE t = "N" ->
                 IF ~AllDigits(value) THEN ElementError(el, "must be numeric")
                 ELSE Ok
          [] t = "R" ->
                 IF ~ParsesAsF64(value)
                 THEN ElementError(el, "must be a valid decimal number")
                 ELSE Ok
          [] t = "DT" ->
                 IF Len(value) = 8 /\ AllDigits(value)
                 THEN LET month == ToNat(Slice(value, 4, 6))
                          day == ToNat(Slice(value, 6, 8))
                      IN  IF month < 1 \/ month > 12
                          THEN ElementError(el, "has invalid month")
                          ELSE IF day < 1 \/ day > 31
                          THEN ElementError(el, "has invalid day")
                          ELSE Ok
                 ELSE ElementError(el, "must be a valid date (CCYYMMDD)")
          [] t = "TM" ->
                 IF (Len(value) = 4 \/ Len(value) = 6) /\ AllDigits(value)
                 THEN LET hour == ToNat(Slice(value, 0, 2))
                          minute == ToNat(Slice(value, 2, 4))
                      IN  IF hour > 23
                          THEN ElementError(el, "has invalid hour")
                          ELSE IF minute > 59
                          THEN ElementError(el, "has invalid minute")
                          ELSE IF /\ Len(value) = 6
                                  /\ ToNat(Slice(value, 4, 6)) > 59
                          THEN ElementError(el, "has invalid second")
                          ELSE Ok
                 ELSE ElementError(el, "must be a valid time (HHMM or HHMMSS)")
          [] t = "B" ->
                 IF Len(value) = 0 /\ el.definition.requirement = "Mandatory"
                 THEN Err("ValidationError",
                          ElementMessage("Binary data cannot be empty",
                                         el.definition, Some(el.position), None))
                 ELSE Ok
          [] OTHER -> Ok

\* validated_element.rs 26-80: the first failing rule is returned
ValidatedElement_validate(el) ==
    IF el.definition.requirement = "Mandatory" /\ ~IsSome(el.value)
    THEN Err("ValidationError",
             ElementMessage("is missing", el.definition, Some(el.position), None))
    ELSE IF ~IsSome(el.value) THEN Ok
    ELSE LET value == Unwrap(el.value)
             def == el.definition
         IN  IF Len(value) = 0 /\ def.requirement # "Mandatory" THEN Ok
             ELSE IF IsSome(def.min_length) /\ Len(value) < Unwrap(def.min_length)
             THEN ElementError(el, "is too short")
             ELSE IF IsSome(def.max_length) /\ Len(value) > Unwrap(def.max_length)
             THEN ElementError(el, "is too long")
             ELSE IF validate_data_type(el, value).tag # "Ok"
             THEN validate_data_type(el, value)
             ELSE IF /\ IsSome(def.valid_codes)
                     /\ ~Contains(Unwrap(def.valid_codes), value)
             THEN ElementError(el, "is not a valid code")
             ELSE Ok

\* ValidatedSegment::validate (validated_element.rs 231-236): the first error
RECURSIVE ValidatedSegment_validate(_, _)
ValidatedSegment_validate(els, i) ==
    IF i > Len(els) THEN Ok
    ELSE IF ValidatedElement_validate(els[i]).tag # "Ok"
    THEN ValidatedElement_validate(els[i])
    ELSE ValidatedSegment_validate(els, i + 1)

\* validating_parser.rs 26-54; positions are pos + 1
parse_and_validate(registry, version, segment) ==
    LET found == get_definition(registry, version, segment.id)
    IN  IF ~IsSome(found)
        THEN Err("ValidationError", <<"Unknown segment", segment.id, version>>)
        ELSE LET defs == Unwrap(found).elements
                 els == [i \in 1..Len(defs) |->
                            ValidatedElement_new(defs[i],
                                                 Get(segment.elements, i - 1), i)]
                 checked == ValidatedSegment_validate(els, 1)
             IN  IF checked.tag # "Ok" THEN checked
                 ELSE [tag |-> "Ok",
                       val |-> [segment_id |-> segment.id, elements |-> els]]

RegistryError(text, def, position, value) ==
    Err("ValidationError", ElementMessage(text, def, position, value))

\* segment_definition.rs 498-595; element_position is counted from 0
validate_element_value(registry, version, segment_id, element_position, value) ==
    LET found == get_definition(registry, version, segment_id)
    IN  IF ~IsSome(found)
        THEN Err("ValidationError", <<"Unknown segment:", segment_id>>)
        ELSE IF ~IsSome(Get(Unwrap(found).elements, element_position))
        THEN Err("ValidationError",
                 <<"Element position not found", ToString(element_position + 1)>>)
        ELSE LET def == Unwrap(Get(Unwrap(found).elements, element_position))
                 t == def.data_type
             IN  IF def.requirement = "Mandatory" /\ Len(value) = 0
                 THEN RegistryError("is mandatory but empty", def,
                                    Some(element_position + 1), None)
                 ELSE IF Len(value) = 0 THEN Ok
                 ELSE IF IsSome(def.min_length) /\ Len(value) < Unwrap(def.min_length)
                 THEN RegistryError("is too short", def, None, Some(value))
                 ELSE IF IsSome(def.max_length) /\ Len(value) > Unwrap(def.max_length)
                 THEN RegistryError("is too long", def, None, Some(value))
                 ELSE IF /\ IsSome(def.valid_codes)
                         /\ ~Contains(Unwrap(def.valid_codes), value)
                 THEN RegistryError("is not valid", def, None, Some(value))
                 ELSE IF t = "N" /\ ~AllDigits(value)
                 THEN RegistryError("must be numeric", def, None, Some(value))
                 ELSE IF t = "R" /\ ~ParsesAsF64(value)
                 THEN RegistryError("must be a valid decimal number", def, None,
                                    Some(value))
                 ELSE IF t = "DT" /\ (Len(value) # 8 \/ ~AllDigits(value))
                 THEN RegistryError("must be a valid date in CCYYMMDD format",
                                    def, None, Some(value))
                 ELSE IF t = "TM" /\ (Len(value) \notin {4, 6, 7, 8}
                                      \/ ~AllDigits(value))
                 THEN RegistryError("must be a valid time", def, None, Some(value))
                 ELSE Ok

\* schema_validating_parser.rs 230-276: the element loop for one segment of
\* a transaction; both positions are the indices of enumerate(), from 0
RECURSIVE ValidateElementsFrom(_, _, _, _, _, _)
ValidateElementsFrom(registry, version, segment, segment_position, element_position, acc) ==
    IF element_position >= Len(segment.elements) THEN acc
    ELSE LET element_value == segment.elements[element_position + 1]
             found == get_definition(registry, version, segment.id)
             step ==
                 IF ~IsSome(found) THEN acc
                 ELSE LET element_def == Get(Unwrap(found).elements,
                                             element_position)
                          checked == validate_element_value(registry, version,
                                         segment.id, element_position,
                                         element_value)
                          el == ValidatedElement_new(Unwrap(element_def),
                                    Some(element_value), element_position)
                      IN  IF ~IsSome(element_def)
                          THEN [acc EXCEPT !.validation_results =
                                   @ \o <<ValidationResult("Warning",
                                              <<"Element position not defined",
                                                ToString(element_position + 1)>>,
                                              Some(segment_position),
                                              Some(element_position))>>]
                          ELSE IF checked.tag = "Ok"
                          THEN [acc EXCEPT !.validated_elements = Append(@, el)]
                          ELSE [validated_elements |->
                                    Append(acc.validated_elements, el),
                                validation_results |->
                                    acc.validation_results \o
                                    <<ValidationResult("Error",
                                          [prefix |-> "Element validation failed:",
                                           error |-> checked],
                                          Some(segment_position),
                                          Some(element_position))>>]
         IN  ValidateElementsFrom(registry, version, segment, segment_position,
                                  element_position + 1, step)

validate_segment_elements(registry, version, segment, segment_position) ==
    ValidateElementsFrom(registry, version, segment, segment_position, 0,
                         [validated_elements |-> <<>>,
                          validation_results |-> <<>>])

\* the values tried at each position of a segment; the last set is used for
\* every position beyond those listed
ElementChoices(id) ==
    CASE id = sBEG -> << {<<"0", "0">>, <<"9", "9">>, <<"9">>, <<>>},
                         {<<"S", "A">>, <<"X", "X">>},
                         {<<"P", "1">>, <<>>},
                         {<<>>, <<"R", "1">>},
                         {<<"2", "0", "2", "4", "0", "1", "0", "1">>, <<"2", "0", "2", "4", "1", "3", "0", "1">>, <<"2", "0", "2", "4">>},
                         {<<"X">>} >>
      [] id = sCUR -> << {<<"B", "Y">>, <<"Z", "Z">>},
                         {<<"U", "S", "D">>, <<"X", "X", "X">>},
                         {<<"1", ".", "2", "5">>, <<"1", "2", "x", "4">>, <<>>},
                         {<<"X">>} >>
      [] id = sREF -> << {<<"D", "P">>, <<"Z", "Z", "Z">>}, {<<"A">>, <<>>}, {<<"X">>} >>
      [] id = sPO1 -> << {<<"1">>, <<>>}, {<<"1", "0">>, <<"1", "e", "1">>, <<"e">>}, {<<"X">>} >>
      [] OTHER -> << {<<"B", "Y">>} >>

ChoiceAt(id, i) ==
    LET c == ElementChoices(id)
    IN  IF i <= Len(c) THEN c[i] ELSE c[Len(c)]

\* every element list of length n drawn from the choices
RECURSIVE ElementLists(_, _)
ElementLists(id, n) ==
    IF n = 0 THEN {<<>>}
    ELSE {Append(q, x) : q \in ElementLists(id, n - 1), x \in ChoiceAt(id, n)}

\* how many elements the segments of an ID are given
ElementCounts(id) ==
    IF id = sBEG THEN 0..MaxElements
    ELSE IF id = sN1 THEN {1}
    ELSE 0..Len(ElementChoices(id))

ElementInit ==
    /\ elem_input \in
          UNION {{[version |-> v, segment |-> Segment_new(id, els),
                   segment_position |-> 1] :
                     els \in UNION {ElementLists(id, n) : n \in ElementCounts(id)},
                     v \in IF id = sREF THEN X12Versions ELSE {"V4010"}} :
                 id \in {sBEG, sCUR, sREF, sPO1, sN1}}
    /\ validated = [tag |-> "none"]
    /\ segment_results = [tag |-> "none"]
    /\ ParseIdle /\ SchemaIdle /\ PoIdle /\ PipelineIdle

\* ValidatingSegmentParser::new(version).parse_and_validate(&segment)
ParseAndValidate ==
    /\ validated.tag = "none"
    /\ validated' = parse_and_validate(SegmentRegistry_new, elem_input.version,
                                       elem_input.segment)
    /\ UNCHANGED <<elem_input, segment_results>>
    /\ UNCHANGED <<parseVars, schemaVars, poVars, pipelineVars>>

\* parse_with_schema reaches the segment inside a transaction
ValidateSegmentElements ==
    /\ segment_results.tag = "none"
    /\ segment_results' =
          [tag |-> "done",
           val |-> validate_segment_elements(SegmentRegistry_new,
                       elem_input.version, elem_input.segment,
                       elem_input.segment_position)]
    /\ UNCHANGED <<elem_input, validated>>
    /\ UNCHANGED <<parseVars, schemaVars, poVars, pipelineVars>>

ElementNext ==
    \/ ParseAndValidate
    \/ ValidateSegmentElements

SpecElement == ElementInit /\ [][ElementNext]_vars

----------------------------------------------------------------------------
(* Properties of element validation.                                       *)

\* the value at offset i of the definition's elements, if the segment has it
GivenValue(inp, i) == Get(inp.segment.elements, i - 1)

DefinitionOf(inp) ==
    get_definition(SegmentRegistry_new, inp.version, inp.segment.id)

\* the value is given, keeps the length bounds and the data-type format of
\* its definition, and is not one of the definition's valid codes
CodeViolation(def, value) ==
    /\ IsSome(def.valid_codes)
    /\ IsSome(value)
    /\ Len(Unwrap(value)) > 0
    /\ IsSome(def.min_length) => Len(Unwrap(value)) >= Unwrap(def.min_length)
    /\ IsSome(def.max_length) => Len(Unwrap(value)) <= Unwrap(def.max_length)
    /\ validate_data_type(ValidatedElement_new(def, value, 1),
                          Unwrap(value)).tag = "Ok"
    /\ ~Contains(Unwrap(def.valid_codes), Unwrap(value))

CodeViolations(inp) ==
    {i \in 1..Len(Unwrap(DefinitionOf(inp)).elements) :
        CodeViolation(Unwrap(DefinitionOf(inp)).elements[i], GivenValue(inp, i))}

\* a segment of a registered ID in which one element has an invalid code and
\* every other element satisfies its definition
OneInvalidCode(inp) ==
    /\ IsSome(DefinitionOf(inp))
    /\ Len(inp.segment.elements) <= Len(Unwrap(DefinitionOf(inp)).elements)
    /\ Cardinality(CodeViolations(inp)) = 1
    /\ \A i \in 1..Len(Unwrap(DefinitionOf(inp)).elements) :
          i \notin CodeViolations(inp) =>
              ValidatedElement_validate(
                  ValidatedElement_new(Unwrap(DefinitionOf(inp)).elements[i],
                                       GivenValue(inp, i), i)).tag = "Ok"

InvalidPosition(inp) == CHOOSE i \in CodeViolations(inp) : TRUE

InvalidDefinition(inp) ==
    Unwrap(DefinitionOf(inp)).elements[InvalidPosition(inp)]

\* parse_and_validate returns one error, and it carries the element ID, the
\* position counted from 1 and the value
ParseAndValidateIdentifiesElement ==
    (OneInvalidCode(elem_input) /\ validated.tag # "none") =>
        /\ validated.tag = "Err"
        /\ validated.msg.element_id = InvalidDefinition(elem_input).element_id
        /\ validated.msg.position = Some(InvalidPosition(elem_input))
        /\ validated.msg.value =
               GivenValue(elem_input, InvalidPosition(elem_input))

\* the element loop of parse_with_schema records one Error, and it carries
\* the element ID, the position counted from 1 and the value
ParseWithSchemaIdentifiesElement ==
    (OneInvalidCode(elem_input) /\ segment_results.tag # "none") =>
        LET errs == Errors(segment_results.val.validation_results)
        IN  /\ Len(errs) = 1
            /\ errs[1].message.error.msg.element_id =
                   InvalidDefinition(elem_input).element_id
            /\ errs[1].message.error.msg.value =
                   GivenValue(elem_input, InvalidPosition(elem_input))
            /\ \/ errs[1].element_position = Some(InvalidPosition(elem_input))
               \/ errs[1].message.error.msg.position =
                      Some(InvalidPosition(elem_input))

\* C9: for an element value that keeps the length bounds and the data-type
\* format of its definition but is not one of its valid codes, element
\* validation of the segment reports exactly one Error, which identifies the
\* element's numeric ID, its position counted from 1 and the offending value
\* (BEG01 = "99": element 353, position 1, value "99").
C9_InvalidCodeIdentifiesElement ==
    /\ ParseAndValidateIdentifiesElement
    /\ ParseWithSchemaIdentifiesElement

----------------------------------------------------------------------------
(* The 850 purchase order (transactions/purchase_order_850.rs) and the      *)
(* typed segments it is built from (segments/control.rs, common.rs,         *)
(* purchase_order.rs).                                                      *)

\* most PO1 segments of a transaction
MaxItems == 2

sCTT == <<"C", "T", "T">>

FormatError(msg) == [tag |-> "Err", err |-> "InvalidSegmentFormat", msg |-> msg]

\* str::parse::<u32>() and ::<usize>() on the values of the model, which
\* stay far below the width of either type: an optional '+', then digits
ParseUnsigned(v) ==
    LET u == IF Len(v) > 0 /\ v[1] = "+" THEN SubSeq(v, 2, Len(v)) ELSE v
    IN  IF Len(u) > 0 /\ AllDigits(u) THEN Some(ToNat(u)) ELSE None

\* s.trim().is_empty()
IsBlank(v) == Len(StrTrim(v)) = 0

\* segments/control.rs 135-149
StSegment_parse_segment(segment) ==
    IF segment.id # sST THEN FormatError("Expected ST")
    ELSE IF Len(segment.elements) < 2
    THEN FormatError("ST segment requires at least 2 elements")
    ELSE [tag |-> "Ok",
          val |-> [transaction_set_identifier_code |-> segment.elements[1],
                   transaction_set_control_number |-> segment.elements[2],
                   implementation_convention_reference |->
                       Get(segment.elements, 2)]]

\* segments/control.rs 155-160
StSegment_validate(st) ==
    IF IsBlank(st.transaction_set_control_number)
    THEN Err("ValidationError", "ST control number cannot be empty")
    ELSE Ok

\* purchase_order_850.rs 32-46
SeSegment_parse_segment(segment) ==
    IF segment.id # sSE THEN FormatError("Expected SE")
    ELSE IF Len(segment.elements) < 2
    THEN FormatError("SE segment requires 2 elements")
    ELSE [tag |-> "Ok",
          val |-> [number_of_included_segments |-> segment.elements[1],
                   transaction_set_control_number |-> segment.elements[2]]]

\* purchase_order_850.rs 52-57
SeSegment_validate(se) ==
    IF IsBlank(se.transaction_set_control_number)
    THEN Err("ValidationError", "SE control number cannot be empty")
    ELSE Ok

\* segments/purchase_order.rs 27-49
BegSegment_parse_segment(segment) ==
    IF segment.id # sBEG THEN FormatError("Expected BEG")
    ELSE IF Len(segment.elements) < 5
    THEN FormatError("BEG segment requires at least 5 elements")
    ELSE [tag |-> "Ok",
          val |-> [transaction_set_purpose_code |-> segment.elements[1],
                   purchase_order_type_code |-> segment.elements[2],
                   purchase_order_number |-> segment.elements[3],
                   release_number |-> Get(segment.elements, 3),
                   date |-> segment.elements[5],
                   contract_number |-> Get(segment.elements, 5),
                   acknowledgment_type |-> Get(segment.elements, 6),
                   invoice_type_code |-> Get(segment.elements, 7),
                   contract_type_code |-> Get(segment.elements, 8),
                   purchase_category |-> Get(segment.elements, 9),
                   security_level_code |-> Get(segment.elements, 10)]]

\* segments/purchase_order.rs 55-60
BegSegment_validate(beg) ==
    IF IsBlank(beg.purchase_order_number)
    THEN Err("ValidationError", "Purchase order number cannot be empty")
    ELSE Ok

\* segments/common.rs 22-39
N1Segment_parse_segment(segment) ==
    IF segment.id # sN1 THEN FormatError("Expected N1")
    ELSE IF Len(segment.elements) = 0
    THEN FormatError("N1 segment requires at least 1 element")
    ELSE [tag |-> "Ok",
          val |-> [entity_identifier_code |-> segment.elements[1],
                   name |-> Get(segment.elements, 1),
                   identification_code_qualifier |-> Get(segment.elements, 2),
                   identification_code |-> Get(segment.elements, 3),
                   entity_relationship_code |-> Get(segment.elements, 4),
                   entity_identifier_code_2 |-> Get(segment.elements, 5)]]

\* segments/common.rs 45-50
N1Segment_validate(n1) ==
    IF IsBlank(n1.entity_identifier_code)
    THEN Err("ValidationError", "Entity identifier code cannot be empty")
    ELSE Ok

\* segments/purchase_order.rs 87-109: fields[i] is elements.get(i)
Po1Segment_parse_segment(segment) ==
    IF segment.id # sPO1 THEN FormatError("Expected PO1")
    ELSE [tag |-> "Ok",
          val |-> [fields |-> [i \in 0..14 |-> Get(segment.elements, i)]]]

\* segments/purchase_order.rs 115-118
Po1Segment_validate(po1) == Ok

\* segments/purchase_order.rs 137-155
CttSegment_parse_segment(segment) ==
    IF segment.id # sCTT THEN FormatError("Expected CTT")
    ELSE IF Len(segment.elements) = 0
    THEN FormatError("CTT segment requires at least 1 element")
    ELSE [tag |-> "Ok",
          val |-> [number_of_line_items |-> segment.elements[1],
                   hash_total |-> Get(segment.elements, 1),
                   weight |-> Get(segment.elements, 2),
                   unit_or_basis_for_measurement_code |-> Get(segment.elements, 3),
                   volume |-> Get(segment.elements, 4),
                   unit_or_basis_for_measurement_code_2 |->
                       Get(segment.elements, 5),
                   description |-> Get(segment.elements, 6)]]

\* segments/purchase_order.rs 161-170
CttSegment_validate(ctt) ==
    LET count == ParseUnsigned(ctt.number_of_line_items)
    IN  IF ~IsSome(count)
        THEN Err("ValidationError", "Invalid line item count format")
        ELSE IF Unwrap(count) = 0
        THEN Err("ValidationError", "Line item count cannot be zero")
        ELSE Ok

\* purchase_order_850.rs 75-99: one segment of the loop; acc holds the
\* locals of parse_transaction
ParseOne(segment, acc) ==
    LET id == segment.id
        r == CASE id = sST -> StSegment_parse_segment(segment)
               [] id = sBEG -> BegSegment_parse_segment(segment)
               [] id = sN1 -> N1Segment_parse_segment(segment)
               [] id = sPO1 -> Po1Segment_parse_segment(segment)
               [] id = sCTT -> CttSegment_parse_segment(segment)
               [] id = sSE -> SeSegment_parse_segment(segment)
               [] OTHER -> Ok
    IN  IF r.tag # "Ok" THEN r
        ELSE [tag |-> "Ok",
              val |->
                CASE id = sST -> [acc EXCEPT !.header = Some(r.val)]
                  [] id = sBEG -> [acc EXCEPT !.beginning_segment = Some(r.val)]
                  [] id = sN1 -> [acc EXCEPT !.parties = Append(@, r.val)]
                  [] id = sPO1 -> [acc EXCEPT !.line_items = Append(@, r.val)]
                  [] id = sCTT -> [acc EXCEPT !.totals = Some(r.val)]
                  [] id = sSE -> [acc EXCEPT !.trailer = Some(r.val)]
                  [] OTHER -> acc]

RECURSIVE ParseSegmentsFrom(_, _, _)
ParseSegmentsFrom(segs, i, acc) ==
    IF i > Len(segs) THEN [tag |-> "Ok", val |-> acc]
    ELSE LET r == ParseOne(segs[i], acc)
         IN  IF r.tag # "Ok" THEN r
             ELSE ParseSegmentsFrom(segs, i + 1, r.val)

\* purchase_order_850.rs 63-110
parse_transaction(tx) ==
    IF tx.transaction_set_id # s850
    THEN [tag |-> "Err", err |-> "UnsupportedTransactionType",
          msg |-> tx.transaction_set_id]
    ELSE LET r == ParseSegmentsFrom(tx.segments, 1,
                      [header |-> None, beginning_segment |-> None,
                       parties |-> <<>>, line_items |-> <<>>,
                       totals |-> None, trailer |-> None])
         IN  IF r.tag # "Ok" THEN r
             ELSE IF ~IsSome(r.val.header)
             THEN [tag |-> "Err", err |-> "MissingRequiredSegment", msg |-> sST]
             ELSE IF ~IsSome(r.val.beginning_segment)
             THEN [tag |-> "Err", err |-> "MissingRequiredSegment", msg |-> sBEG]
             ELSE [tag |-> "Ok",
                   val |-> [header |-> Unwrap(r.val.header),
                            beginning_segment |-> Unwrap(r.val.beginning_segment),
                            parties |-> r.val.parties,
                            line_items |-> r.val.line_items,
                            totals |-> r.val.totals,
                            trailer |-> r.val.trailer]]

\* purchase_order_850.rs 115-125
CheckTrailer(header, trailer) ==
    IF ~IsSome(trailer) THEN Ok
    ELSE IF SeSegment_validate(Unwrap(trailer)).tag # "Ok"
    THEN SeSegment_validate(Unwrap(trailer))
    ELSE IF header.transaction_set_control_number
                # Unwrap(trailer).transaction_set_control_number
    THEN Err("ValidationError", "ST and SE control numbers must match")
    ELSE Ok

\* a slip: the declared count is compared with the number of parties
CheckLineItemCount_Parties(order) ==
    IF ~IsSome(order.totals) THEN Ok
    ELSE IF CttSegment_validate(Unwrap(order.totals)).tag # "Ok"
    THEN CttSegment_validate(Unwrap(order.totals))
    ELSE LET expected_count ==
                 ParseUnsigned(Unwrap(order.totals).number_of_line_items)
         IN  IF /\ IsSome(expected_count)
                /\ Unwrap(expected_count) # Len(order.parties)
             THEN Err("ValidationError",
                      [text |-> "Expected {} line items, found {}",
                       expected |-> Unwrap(expected_count),
                       found |-> Len(order.parties)])
             ELSE Ok

\* purchase_order_850.rs 127-137
CheckLineItemCount(order) ==
    IF ~IsSome(order.totals) THEN Ok
    ELSE IF CttSegment_validate(Unwrap(order.totals)).tag # "Ok"
    THEN CttSegment_validate(Unwrap(order.totals))
    ELSE LET expected_count ==
                 ParseUnsigned(Unwrap(order.totals).number_of_line_items)
         IN  IF /\ IsSome(expected_count)
                /\ Unwrap(expected_count) # Len(order.line_items)
             THEN Err("ValidationError",
                      [text |-> "Expected {} line items, found {}",
                       expected |-> Unwrap(expected_count),
                       found |-> Len(order.line_items)])
             ELSE Ok

\* purchase_order_850.rs 139-142: the first party that fails
RECURSIVE ValidateParties(_, _)
ValidateParties(parties, i) ==
    IF i > Len(parties) THEN Ok
    ELSE IF N1Segment_validate(parties[i]).tag # "Ok"
    THEN N1Segment_validate(parties[i])
    ELSE ValidateParties(parties, i + 1)

\* purchase_order_850.rs 144-147: the first line item that fails
RECURSIVE ValidateItems(_, _)
ValidateItems(items, i) ==
    IF i > Len(items) THEN Ok
    ELSE IF Po1Segment_validate(items[i]).tag # "Ok"
    THEN Po1Segment_validate(items[i])
    ELSE ValidateItems(items, i + 1)

\* purchase_order_850.rs 112-150: the first failing check is returned
PurchaseOrder850_validate(order) ==
    IF StSegment_validate(order.header).tag # "Ok"
    THEN StSegment_validate(order.header)
    ELSE IF BegSegment_validate(order.beginning_segment).tag # "Ok"
    THEN BegSegment_validate(order.beginning_segment)
    ELSE IF CheckTrailer(order.header, order.trailer).tag # "Ok"
    THEN CheckTrailer(order.header, order.trailer)
    ELSE IF CheckLineItemCount(order).tag # "Ok"
    THEN CheckLineItemCount(order)
    ELSE IF ValidateParties(order.parties, 1).tag # "Ok"
    THEN ValidateParties(order.parties, 1)
    ELSE ValidateItems(order.line_items, 1)

\* the segments purchase orders are assembled from
StChoices ==
    {<<>>, <<Segment_new(sST, <<s850, <<"1">>>>)>>,
     <<Segment_new(sST, <<s850, <<" ">>>>)>>, <<Segment_new(sST, <<s850>>)>>}

BegChoices ==
    {<<>>,
     <<Segment_new(sBEG, <<<<"0", "0">>, <<"S", "A">>, <<"P", "1">>, <<>>, <<"2", "0", "2", "4", "0", "1", "0", "1">>>>)>>,
     <<Segment_new(sBEG, <<<<"0", "0">>, <<"S", "A">>, <<>>, <<>>, <<"2", "0", "2", "4", "0", "1", "0", "1">>>>)>>,
     <<Segment_new(sBEG, <<<<"0", "0">>, <<"S", "A">>, <<"P", "1">>, <<>>>>)>>}

N1Choices ==
    {<<>>, <<Segment_new(sN1, <<<<"B", "Y">>>>)>>, <<Segment_new(sN1, <<<<" ">>>>)>>,
     <<Segment_new(sN1, <<>>)>>}

Po1Choices ==
    {[i \in 1..m |-> Segment_new(sPO1, <<Digit(i), <<"1", "0">>>>)] : m \in 0..MaxItems}

CttValues == {<<"0">>, <<"1">>, <<"2">>, <<"3">>, <<"0", "2">>, <<"+", "1">>, <<"x">>, <<>>, <<"-", "1">>}

CttChoices ==
    {<<>>, <<Segment_new(sCTT, <<>>)>>,
     <<Segment_new(sCTT, <<<<"2">>>>), Segment_new(sCTT, <<<<"1">>>>)>>}
    \cup {<<Segment_new(sCTT, <<v>>)>> : v \in CttValues}

SeChoices ==
    {<<>>, <<Segment_new(sSE, <<<<"4">>, <<"1">>>>)>>,
     <<Segment_new(sSE, <<<<"4">>, <<"2">>>>)>>, <<Segment_new(sSE, <<<<"4">>, <<" ">>>>)>>,
     <<Segment_new(sSE, <<<<"4">>>>)>>}

SampleOrder ==
    <<Segment_new(sST, <<s850, <<"1">>>>),
      Segment_new(sBEG, <<<<"0", "0">>, <<"S", "A">>, <<"P", "1">>, <<>>, <<"2", "0", "2", "4", "0", "1", "0", "1">>>>),
      Segment_new(sPO1, <<<<"1">>, <<"1", "0">>>>),
      Segment_new(sCTT, <<<<"1">>>>),
      Segment_new(sSE, <<<<"4">>, <<"1">>>>)>>

PoTransactions ==
    {Transaction_new(st \o beg \o n1 \o items \o ctt \o se, s850, <<"1">>) :
        st \in StChoices, beg \in BegChoices, n1 \in N1Choices,
        items \in Po1Choices, ctt \in CttChoices, se \in SeChoices}
    \cup {Transaction_new(SampleOrder, s810, <<"1">>)}

PoInit ==
    /\ transaction \in PoTransactions
    /\ po = [tag |-> "none"]
    /\ po_validation = [tag |-> "none"]
    /\ ParseIdle /\ SchemaIdle /\ ElementIdle /\ PipelineIdle

\* PurchaseOrder850::parse_transaction(&transaction)
ParseTransaction ==
    /\ po.tag = "none"
    /\ po' = parse_transaction(transaction)
    /\ UNCHANGED <<transaction, po_validation>>
    /\ UNCHANGED <<parseVars, schemaVars, elementVars, pipelineVars>>

\* validate() on the purchase order that was parsed
ValidatePurchaseOrder ==
    /\ po.tag = "Ok"
    /\ po_validation.tag = "none"
    /\ po_validation' = PurchaseOrder850_validate(po.val)
    /\ UNCHANGED <<transaction, po>>
    /\ UNCHANGED <<parseVars, schemaVars, elementVars, pipelineVars>>

PoNext ==
    \/ ParseTransaction
    \/ ValidatePurchaseOrder

SpecPo == PoInit /\ [][PoNext]_vars

----------------------------------------------------------------------------
(* Properties of the 850 purchase order.                                   *)

SegmentsWithId(tx, id) ==
    SelectSeq(tx.segments, LAMBDA g : g.id = id)

\* number of PO1 segments in the transaction
ActualCount(tx) == Len(SegmentsWithId(tx, sPO1))

HasCTT(tx) == Len(SegmentsWithId(tx, sCTT)) > 0

\* CTT01 of the CTT segment (of the last one if there are several)
DeclaredText(tx) ==
    LET ctts == SegmentsWithId(tx, sCTT)
    IN  Get(ctts[Len(ctts)].elements, 0)

\* the count CTT01 declares, if it is a number
DeclaredCount(tx) ==
    IF HasCTT(tx) /\ IsSome(DeclaredText(tx))
    THEN ParseUnsigned(Unwrap(DeclaredText(tx)))
    ELSE None

\* every check of validate other than those on the declared count passes
ValidApartFromCount(order) ==
    /\ StSegment_validate(order.header).tag = "Ok"
    /\ BegSegment_validate(order.beginning_segment).tag = "Ok"
    /\ CheckTrailer(order.header, order.trailer).tag = "Ok"
    /\ ValidateParties(order.parties, 1).tag = "Ok"
    /\ ValidateItems(order.line_items, 1).tag = "Ok"

Validated850 == po.tag = "Ok" /\ po_validation.tag \notin {"none", "idle"}

ReportsBothCounts(tx) ==
    /\ po_validation.tag = "Err"
    /\ po_validation.msg =
           [text |-> "Expected {} line items, found {}",
            expected |-> Unwrap(DeclaredCount(tx)),
            found |-> ActualCount(tx)]

\* C10: for a purchase order that is otherwise valid and contains a CTT
\* segment, validate fails if and only if the count declared in CTT01
\* differs from the number of PO1 segments, and on a mismatch the error
\* reports both the declared and the actual count.
C10_FailsIffCountDiffers ==
    (/\ Validated850
     /\ ValidApartFromCount(po.val)
     /\ IsSome(DeclaredCount(transaction))) =>
        /\ po_validation.tag = "Err" <=>
               Unwrap(DeclaredCount(transaction)) # ActualCount(transaction)
        /\ Unwrap(DeclaredCount(transaction)) # ActualCount(transaction) =>
               ReportsBothCounts(transaction)

\* C10 as amended: the same, for a CTT01 that declares a positive count
C10_FailsIffPositiveCountDiffers ==
    (/\ Validated850
     /\ ValidApartFromCount(po.val)
     /\ IsSome(DeclaredCount(transaction))
     /\ Unwrap(DeclaredCount(transaction)) > 0) =>
        /\ po_validation.tag = "Err" <=>
               Unwrap(DeclaredCount(transaction)) # ActualCount(transaction)
        /\ Unwrap(DeclaredCount(transaction)) # ActualCount(transaction) =>
               ReportsBothCounts(transaction)

\* CTT01 declares 2 and there is one PO1: the error reports 2 and 1
C10_Witness ==
    /\ Validated850
    /\ ValidApartFromCount(po.val)
    /\ DeclaredCount(transaction) = Some(2)
    /\ ActualCount(transaction) = 1
    /\ ReportsBothCounts(transaction)

----------------------------------------------------------------------------
(* Properties of trading partner agreements (schema_engine.rs 61-93,       *)
(* 652-664) under SpecSchema.                                              *)

\* the agreements registered for the type and version of the request
AgreementsOf(eng, req) ==
    IF <<req.transaction_type, req.version>> \in DOMAIN eng.transaction_sets
    THEN eng.transaction_sets[<<req.transaction_type, req.version>>]
             .trading_partner_agreements
    ELSE <<>>

Customizations(agreements) ==
    UNION {{a.customizations[i] : i \in 1..Len(a.customizations)} :
              a \in {agreements[j] : j \in 1..Len(agreements)}}

\* the catalog entries of the request's schema as SchemaEngine::new built it
BaseSegments(req) ==
    LET found == get_transaction_schema(SchemaEngine_new, req.transaction_type,
                                        req.version)
    IN  IF IsSome(found) THEN Unwrap(found).segments ELSE <<>>

\* the segments a registered MakeMandatory turns from optional to mandatory,
\* no registered MakeOptional contradicting it
MadeMandatory(eng, req) ==
    {c.segment_id : c \in
        {d \in Customizations(AgreementsOf(eng, req)) :
            /\ d.customization_type = MakeMandatory
            /\ d.element_position = None
            /\ \A o \in Customizations(AgreementsOf(eng, req)) :
                   ~(o.segment_id = d.segment_id
                         /\ o.customization_type = MakeOptional)
            /\ \E i \in 1..Len(BaseSegments(req)) :
                   /\ BaseSegments(req)[i].segment_id = d.segment_id
                   /\ BaseSegments(req)[i].requirement = "Optional"}}

ReportsMissing(results, segment_id) ==
    \E i \in 1..Len(results) :
        /\ results[i].result_type = "Error"
        /\ results[i].message = <<"Missing mandatory segment", segment_id>>

\* C12: once an agreement with MakeMandatory on an optional segment S is
\* registered for a type and version, validating a transaction of that type
\* and version that lacks S reports an Error for the missing mandatory S;
\* without the agreement no such Error is reported.
C12_CustomizationTakesEffect ==
    (outcome.op = "validate" /\ outcome.res.tag = "Ok") =>
        \A i \in 1..Len(BaseSegments(request)) :
            LET s == BaseSegments(request)[i]
            IN  (s.requirement = "Optional"
                     /\ ~Contains(request.segments, s.segment_id)) =>
                    (ReportsMissing(outcome.res.val, s.segment_id)
                         <=> s.segment_id \in MadeMandatory(engine, request))

\* the registered customizations only tighten requirements or widen codes
OnlyTightening(eng, req) ==
    /\ AgreementsOf(eng, req) # <<>>
    /\ \A c \in Customizations(AgreementsOf(eng, req)) :
          c.customization_type.kind \in {"MakeMandatory", "ExtendValidCodes"}

ErrorSet(results) == {Errors(results)[i] : i \in 1..Len(Errors(results))}

CatalogIntact ==
    /\ DOMAIN engine.transaction_sets = DOMAIN SchemaEngine_new.transaction_sets
    /\ \A k \in DOMAIN SchemaEngine_new.transaction_sets :
          engine.transaction_sets[k].segments =
              SchemaEngine_new.transaction_sets[k].segments
    /\ engine.element_dictionary = SchemaEngine_new.element_dictionary

FailingAddChangesNothing ==
    (outcome'.op = "add" /\ outcome'.res.tag = "Err") => engine' = engine

\* C14: after any sequence of add_trading_partner_agreement and
\* validate_transaction_structure calls every schema has the segment list
\* (IDs, requirement, max_use, hierarchy level, dependencies) it had after
\* construction and the element dictionary is unchanged; an add that fails
\* leaves the whole engine as it was.
C14_BaseCatalogImmutable ==
    []CatalogIntact /\ [][FailingAddChangesNothing]_vars

C14_Witness ==
    /\ outcome.op = "add"
    /\ outcome.res.tag = "Err"
    /\ \E k \in DOMAIN engine.transaction_sets :
          engine.transaction_sets[k].trading_partner_agreements # <<>>

\* customizations that cannot both apply: one makes mandatory what the
\* other makes optional, for the same segment and element position
Conflict(c, d) ==
    /\ c.segment_id = d.segment_id
    /\ c.element_position = d.element_position
    /\ c.customization_type = MakeMandatory
    /\ d.customization_type = MakeOptional

\* C15: add_trading_partner_agreement rejects an agreement whose
\* customizations, alone or with those registered, conflict on a segment and
\* element position, so no schema ever holds conflicting customizations.
C15_ConflictsRejected ==
    \A k \in DOMAIN engine.transaction_sets :
        \A c, d \in Customizations(
                        engine.transaction_sets[k].trading_partner_agreements) :
            ~Conflict(c, d)

----------------------------------------------------------------------------
(* One element value against one ElementDefinition: ValidatedElement       *)
(* (models/validated_element.rs) and the registry's validate_element_value *)
(* (models/segment_definition.rs) on a definition of any data type, with   *)
(* or without length bounds.  elem_input holds the definition and the      *)
(* value, validated what ValidatedElement::validate returned and           *)
(* segment_results what validate_element_value returned.                   *)

sDTM == <<"D", "T", "M">>

\* segment_definition.rs 92-94
register_segment(registry, version, definition) ==
    [definitions |->
        [k \in DOMAIN registry.definitions \cup {<<version, definition.id>>} |->
            IF k = <<version, definition.id>> THEN definition
            ELSE registry.definitions[k]]]

\* segment_definition.rs: ElementDataType
ElementDataTypes == {"AN", "ID", "N", "R", "DT", "TM", "B"}

\* definitions of every data type and requirement, without length bounds and
\* with the bounds 1..8
SampleDefinitions ==
    {ElementDefinition(373, "Sample", t, b[1], b[2], r, None) :
        t \in ElementDataTypes,
        b \in {<<None, None>>, <<Some(1), Some(8)>>},
        r \in {"Mandatory", "Optional"}}

\* absent, empty, dates and times in and out of range, and values of other
\* lengths and characters
SampleValues ==
    {None} \cup
    {Some(v) : v \in
        {<<>>,
         <<"2", "0", "2", "4", "0", "1", "1", "5">>,
         <<"2", "0", "2", "4", "1", "2", "3", "1">>,
         <<"2", "0", "2", "4", "1", "3", "0", "1">>,
         <<"2", "0", "2", "4", "0", "0", "1", "0">>,
         <<"2", "0", "2", "4", "0", "1", "0", "0">>,
         <<"2", "0", "2", "4", "0", "1", "3", "2">>,
         <<"2", "0", "2", "4", "0", "1", "1">>,
         <<"2", "0", "2", "4", "0", "1", "1", "x">>,
         <<"0", "0", "0", "0">>,
         <<"2", "3", "5", "9">>,
         <<"2", "4", "0", "0">>,
         <<"2", "3", "6", "0">>,
         <<"2", "3", "5", "9", "5", "9">>,
         <<"2", "3", "5", "9", "6", "0">>,
         <<"1", "2", "3", "0", "0">>,
         <<"1", "2", "3", "0", "0", "0", "5">>,
         <<"1", "2", "x", "0">>}}

ValueInit ==
    /\ elem_input \in
          {[version |-> "V4010", definition |-> d, value |-> v] :
              d \in SampleDefinitions, v \in SampleValues}
    /\ validated = [tag |-> "none"]
    /\ segment_results = [tag |-> "none"]
    /\ ParseIdle /\ SchemaIdle /\ PoIdle /\ PipelineIdle

\* ValidatedElement::new(definition, value, 1).validate()
ValidateElement ==
    /\ validated.tag = "none"
    /\ validated' =
          ValidatedElement_validate(
              ValidatedElement_new(elem_input.definition, elem_input.value, 1))
    /\ UNCHANGED <<elem_input, segment_results>>
    /\ UNCHANGED <<parseVars, schemaVars, poVars, pipelineVars>>

\* the definition is registered as the first element of a segment and the
\* value, a &str, is handed to validate_element_value
ValidateElementValue ==
    /\ segment_results.tag = "none"
    /\ IsSome(elem_input.value)
    /\ segment_results' =
          validate_element_value(
              register_segment(SegmentRegistry_new, elem_input.version,
                  SegmentDefinition(sDTM, <<elem_input.definition>>)),
              elem_input.version, sDTM, 0, Unwrap(elem_input.value))
    /\ UNCHANGED <<elem_input, validated>>
    /\ UNCHANGED <<parseVars, schemaVars, poVars, pipelineVars>>

ValueNext ==
    \/ ValidateElement
    \/ ValidateElementValue

SpecValue == ValueInit /\ [][ValueNext]_vars

\* C16: for a definition whose requirement is Mandatory, whatever its data
\* type and whether or not it declares length bounds,
\* ValidatedElement::validate returns an error when the value is None and
\* when it is the empty string.
C16_MandatoryRejectsAbsentAndEmpty ==
    (/\ validated.tag # "none"
     /\ elem_input.definition.requirement = "Mandatory"
     /\ elem_input.value \in {None, Some(<<>>)}) =>
        validated.tag = "Err"

\* the value is given, is not empty and keeps the declared length bounds
WithinLengthBounds(inp) ==
    /\ IsSome(inp.value)
    /\ Len(Unwrap(inp.value)) > 0
    /\ IsSome(inp.definition.min_length) =>
          Len(Unwrap(inp.value)) >= Unwrap(inp.definition.min_length)
    /\ IsSome(inp.definition.max_length) =>
          Len(Unwrap(inp.value)) <= Unwrap(inp.definition.max_length)

\* exactly 8 digits, month 1..12, day 1..31
IsDate(v) ==
    /\ Len(v) = 8
    /\ AllDigits(v)
    /\ ToNat(SubSeq(v, 5, 6)) \in 1..12
    /\ ToNat(SubSeq(v, 7, 8)) \in 1..31

\* 4 or 6 digits, hour at most 23, minute at most 59, second at most 59
IsTime(v) ==
    /\ Len(v) \in {4, 6}
    /\ AllDigits(v)
    /\ ToNat(SubSeq(v, 1, 2)) <= 23
    /\ ToNat(SubSeq(v, 3, 4)) <= 59
    /\ Len(v) = 6 => ToNat(SubSeq(v, 5, 6)) <= 59

WellFormatted(inp) ==
    IF inp.definition.data_type = "DT" THEN IsDate(Unwrap(inp.value))
    ELSE IsTime(Unwrap(inp.value))

\* C17: a non-empty DT value within the length bounds is accepted exactly
\* when it is 8 digits with month 1..12 and day 1..31, and a TM value exactly
\* when it is 4 or 6 digits with hour <= 23, minute <= 59 and second <= 59,
\* by ValidatedElement::validate and by validate_element_value alike.
C17_DateTimeFormat ==
    (/\ elem_input.definition.data_type \in {"DT", "TM"}
     /\ WithinLengthBounds(elem_input)) =>
        /\ validated.tag # "none" =>
              (validated.tag = "Ok" <=> WellFormatted(elem_input))
        /\ segment_results.tag # "none" =>
              (segment_results.tag = "Ok" <=> WellFormatted(elem_input))

\* ValidatedElement::validate alone keeps the format rule
C17_ValidatedElementFormat ==
    (/\ elem_input.definition.data_type \in {"DT", "TM"}
     /\ WithinLengthBounds(elem_input)
     /\ validated.tag # "none") =>
        (validated.tag = "Ok" <=> WellFormatted(elem_input))


----------------------------------------------------------------------------
(* SchemaValidatingParser::parse_with_schema                                *)
(* (parsers/schema_validating_parser.rs 172-335): the input is parsed by    *)
(* the X12 parser, every transaction is checked against the schema engine   *)
(* and the segment registry, and a summary and a status are built.          *)

\* String of the characters of a value
RECURSIVE Str(_)
Str(v) == IF v = <<>> THEN "" ELSE v[1] \o Str(Tail(v))

sUNKNOWN == <<"U", "N", "K", "N", "O", "W", "N">>

\* schema_validating_parser.rs 24-36: the fields the parse reads
ParsingConfig(version, continue_on_error) ==
    [version |-> version, continue_on_error |-> continue_on_error]

\* schema_validating_parser.rs 193-201
TransactionType(tx) ==
    IF /\ Len(tx.segments) > 0
       /\ tx.segments[1].id = sST
       /\ Len(tx.segments[1].elements) > 1
    THEN Some(tx.segments[1].elements[2])
    ELSE None

\* schema_validating_parser.rs 204-220
StructureResults(cfg, tx) ==
    IF ~IsSome(TransactionType(tx)) THEN <<>>
    ELSE LET segment_ids == [i \in 1..Len(tx.segments) |-> Str(tx.segments[i].id)]
             r == validate_transaction_structure(SchemaEngine_new,
                      Str(Unwrap(TransactionType(tx))), cfg.version,
                      segment_ids)
         IN  IF r.tag = "Ok" THEN r.val
             ELSE <<ValidationResult("Error",
                        <<"Transaction structure validation failed:", r.msg>>,
                        None, None)>>

\* schema_validating_parser.rs 338-364
determine_schema_context(transaction_type, segment_id, position) ==
    [transaction_type |-> transaction_type,
     hierarchy_level |->
         IF Str(segment_id) \in {"ST", "BEG", "CUR", "REF", "PER", "DTM"} THEN 0
         ELSE IF Str(segment_id) \in {"SE", "CTT"} THEN 2
         ELSE 1,
     transaction_position |-> position,
     requirement_status |->
         IF Str(segment_id) \in {"ST", "BEG", "SE", "PO1"} THEN "Required"
         ELSE "Optional"]

\* schema_validating_parser.rs 223-297: the segment at segment_position
\* (counted from 0) of a transaction
ValidatedSegment(cfg, tx, segment_position) ==
    LET segment == tx.segments[segment_position + 1]
        checked == validate_segment_elements(SegmentRegistry_new, cfg.version,
                                             segment, segment_position)
    IN  [segment |-> segment,
         validated_elements |-> checked.validated_elements,
         validation_results |-> checked.validation_results,
         schema_context |->
             determine_schema_context(TransactionType(tx), segment.id,
                                      segment_position)]

\* schema_validating_parser.rs 367-407: a later segment overwrites what an
\* earlier one set
RECURSIVE extract_business_context(_, _, _)
extract_business_context(segs, i, context) ==
    IF i > Len(segs) THEN context
    ELSE LET e == segs[i].segment.elements
             next ==
                 IF segs[i].segment.id = sBEG
                 THEN [context EXCEPT
                          !.document_id =
                              IF Len(e) > 3 THEN Some(e[4]) ELSE @,
                          !.document_date =
                              IF Len(e) > 5 THEN Some(e[6]) ELSE @]
                 ELSE IF segs[i].segment.id = sCUR
                 THEN [context EXCEPT
                          !.currency = IF Len(e) > 2 THEN Some(e[3]) ELSE @]
                 ELSE IF segs[i].segment.id = sN1
                 THEN [context EXCEPT
                          !.trading_partner =
                              IF Len(e) > 1 /\ e[1] = <<"B", "Y">> /\ Len(e) > 2
                              THEN Some(e[3]) ELSE @]
                 ELSE context
         IN  extract_business_context(segs, i + 1, next)

\* schema_validating_parser.rs 410-421
determine_validation_status(results) ==
    IF \E i \in 1..Len(results) : results[i].result_type = "Error"
    THEN "Invalid"
    ELSE IF \E i \in 1..Len(results) : results[i].result_type = "Warning"
    THEN "ValidWithWarnings"
    ELSE "Valid"

CountOf(results, result_type) ==
    Cardinality({i \in 1..Len(results) : results[i].result_type = result_type})

\* a slip: continue_on_error is not consulted
determine_parsing_status_Strict(cfg, results) ==
    IF CountOf(results, "Error") = 0 /\ CountOf(results, "Warning") = 0
    THEN "Success"
    ELSE IF CountOf(results, "Error") = 0 THEN "SuccessWithWarnings"
    ELSE "Failed"

\* schema_validating_parser.rs 424-437
determine_parsing_status(cfg, results) ==
    LET error_count == CountOf(results, "Error")
        warning_count == CountOf(results, "Warning")
    IN  IF error_count = 0 /\ warning_count = 0 THEN "Success"
        ELSE IF error_count = 0 /\ warning_count > 0 THEN "SuccessWithWarnings"
        ELSE IF error_count > 0 /\ cfg.continue_on_error THEN "PartialSuccess"
        ELSE "Failed"

\* elements_validated += 1 for every element of every segment
RECURSIVE ElementCount(_)
ElementCount(segs) ==
    IF segs = <<>> THEN 0
    ELSE Len(Head(segs).elements) + ElementCount(Tail(segs))

\* schema_validating_parser.rs 187-311: one transaction; acc holds what the
\* transactions before it produced
ProcessTransaction(cfg, tx, acc) ==
    LET transaction_start == Len(acc.segments)
        transaction_segments ==
            [i \in 1..Len(tx.segments) |-> ValidatedSegment(cfg, tx, i - 1)]
        transaction_validation_results ==
            StructureResults(cfg, tx)
            \o Concat([i \in 1..Len(tx.segments) |->
                          transaction_segments[i].validation_results])
        summary ==
            [transaction_type |->
                 IF IsSome(TransactionType(tx)) THEN Unwrap(TransactionType(tx))
                 ELSE sUNKNOWN,
             version |-> cfg.version,
             segment_range |->
                 <<transaction_start, transaction_start + Len(tx.segments)>>,
             segment_count |-> Len(tx.segments),
             validation_status |->
                 determine_validation_status(transaction_validation_results),
             business_context |->
                 extract_business_context(transaction_segments, 1,
                     [trading_partner |-> None, document_date |-> None,
                      document_id |-> None, currency |-> None,
                      total_amount |-> None])]
    IN  [segments |-> acc.segments \o transaction_segments,
         validation_results |->
             acc.validation_results \o transaction_validation_results,
         transaction_summaries |-> Append(acc.transaction_summaries, summary),
         segments_processed |-> acc.segments_processed + Len(tx.segments),
         elements_validated |->
             acc.elements_validated
             + ElementCount(tx.segments)]

RECURSIVE ProcessTransactions(_, _, _)
ProcessTransactions(cfg, txs, acc) ==
    IF txs = <<>> THEN acc
    ELSE ProcessTransactions(cfg, Tail(txs),
                             ProcessTransaction(cfg, Head(txs), acc))

\* the transactions of the interchange in the order the loops visit them
AllTransactions(interchange) ==
    Concat([g \in 1..Len(interchange.functional_groups) |->
               interchange.functional_groups[g].transactions])

\* schema_validating_parser.rs 178-334, after the parse succeeded
parse_with_schema(cfg, interchange) ==
    LET done == ProcessTransactions(cfg, AllTransactions(interchange),
                    [segments |-> <<>>, validation_results |-> <<>>,
                     transaction_summaries |-> <<>>,
                     segments_processed |-> 0, elements_validated |-> 0])
    IN  [tag |-> "Ok",
         val |-> [segments |-> done.segments,
                  validation_results |-> done.validation_results,
                  transaction_summaries |-> done.transaction_summaries,
                  status |-> determine_parsing_status(cfg,
                                 done.validation_results),
                  metrics |->
                      [segments_processed |-> done.segments_processed,
                       elements_validated |-> done.elements_validated]]]


\* the records a purchase order is written with
wBEG(purpose, extra) ==
    <<sBEG, purpose, <<"S", "A">>, <<"P", "1">>>> \o extra

wCUR == <<sCUR, <<"B", "Y">>, <<"U", "S", "D">>, <<"1", ".", "2", "5">>>>
wPO1 == <<sPO1, <<"1">>, <<"1", "0">>>>
wN1 == <<sN1, <<"B", "Y">>, <<"A">>, <<"9", "2">>>>

\* ST with a control number, and ST whose control number reads as a type
StRecords ==
    {wST(s850, <<"0", "0", "0", "1">>), wST(s850, s850), wST(s810, s810)}

\* no BEG; BEG01..BEG03; BEG01..BEG05; BEG01..BEG06; BEG with an invalid code
BegRecords ==
    {<<>>,
     <<wBEG(<<"0", "0">>, <<>>)>>,
     <<wBEG(<<"0", "0">>,
            << <<"R", "1">>, <<"2", "0", "2", "4", "0", "1", "0", "1">> >>)>>,
     <<wBEG(<<"0", "0">>,
            << <<"R", "1">>, <<"2", "0", "2", "4", "0", "1", "0", "1">>,
               <<"X">> >>)>>,
     <<wBEG(<<"9", "9">>, <<>>)>>}

PoTransactionRecords ==
    {<<st>> \o beg \o cur \o po1 \o se :
        st \in StRecords, beg \in BegRecords, cur \in {<<>>, <<wCUR>>},
        po1 \in {<<>>, <<wPO1>>},
        se \in {<<>>, <<wSE(<<"0", "0", "0", "1">>)>>}}

\* two transactions of one group
SamplePairs ==
    {<<wST(s850, s850), wBEG(<<"0", "0">>, <<>>), wN1, wPO1, wSE(<<"1">>)>> \o tx :
        tx \in {<<wST(s850, s850), wPO1, wSE(<<"2">>)>>,
                 <<wST(s810, s810), wSE(<<"2">>)>>,
                 <<wST(s810, s810), wBEG(<<"9", "9">>, <<>>), wSE(<<"2">>)>>}}

\* documents of one group; a document with no transaction, one whose
\* transaction has no group around it, and one the parser rejects
PipelineDocs ==
    {[BaseDoc EXCEPT !.class = "records",
                     !.body = <<wGS(<<"1">>)>> \o txs
                              \o <<wGE(<<"1">>), wIEA(<<"1">>)>>] :
        txs \in PoTransactionRecords \cup SamplePairs \cup {<<>>}}
    \cup
    {[BaseDoc EXCEPT !.class = "records", !.body = b] :
        b \in {<<wST(s850, s850), wPO1, wSE(<<"1">>)>>,
                <<wGS(<<"1">>), wSTshort, wSE(<<"1">>)>>}}

\* SchemaValidatingParser::new(config), then a call of parse_with_schema
PipelineInit ==
    /\ doc \in PipelineDocs
    /\ self = X12Parser_default
    /\ input = Render(doc)
    /\ pc = "start"
    /\ segments = <<>>
    /\ isa_segment = None
    /\ parser = self
    /\ idx = 0
    /\ functional_groups = <<>>
    /\ current_fg = None
    /\ current_transaction = None
    /\ result = [tag |-> "none"]
    /\ validation = [tag |-> "none"]
    /\ config \in {ParsingConfig("V4010", c) : c \in BOOLEAN}
    /\ parsing = [tag |-> "none"]
    /\ SchemaIdle /\ ElementIdle /\ PoIdle

\* self.x12_parser.parse(edi_data)? returned an error
ParseError ==
    /\ pc = "done"
    /\ result.tag = "Err"
    /\ parsing.tag = "none"
    /\ parsing' = result
    /\ UNCHANGED <<parseVars, config>>
    /\ UNCHANGED <<schemaVars, elementVars, poVars>>

\* the parse succeeded: the transactions are validated and summarised
SchemaValidate ==
    /\ pc = "parsed"
    /\ parsing' = parse_with_schema(config, result.val)
    /\ pc' = "done"
    /\ UNCHANGED <<self, input, doc, segments, isa_segment, parser, idx,
                   functional_groups, current_fg, current_transaction, result,
                   validation, config>>
    /\ UNCHANGED <<schemaVars, elementVars, poVars>>

PipelineNext ==
    \/ ParseStart
    \/ OnGS
    \/ OnGE
    \/ OnST
    \/ OnSE
    \/ OnOther
    \/ ParseFinish
    \/ ParseError
    \/ SchemaValidate

SpecPipeline == PipelineInit /\ [][PipelineNext]_vars

RECURSIVE SegmentFindings(_, _)
SegmentFindings(segs, result_type) ==
    IF segs = <<>> THEN 0
    ELSE CountOf(Head(segs).validation_results, result_type)
         + SegmentFindings(Tail(segs), result_type)

RECURSIVE StructureFindings(_, _, _)
StructureFindings(cfg, txs, result_type) ==
    IF txs = <<>> THEN 0
    ELSE CountOf(StructureResults(cfg, Head(txs)), result_type)
         + StructureFindings(cfg, Tail(txs), result_type)

\* the list of all findings holds, of each type, the findings recorded on
\* the segments and those of the structure validation of every transaction;
\* a transaction summarised as Invalid has left an Error there
FindingsAccumulated(cfg, interchange, res) ==
    /\ \A t \in {"Error", "Warning", "Info"} :
          CountOf(res.validation_results, t) =
              SegmentFindings(res.segments, t)
              + StructureFindings(cfg, AllTransactions(interchange), t)
    /\ \A i \in 1..Len(res.transaction_summaries) :
          res.transaction_summaries[i].validation_status = "Invalid" =>
              CountOf(res.validation_results, "Error") > 0

\* C18: when X12Parser::parse accepts the input, parse_with_schema returns
\* Ok with the findings accumulated, and the status is Success iff there is
\* no Error and no Warning, SuccessWithWarnings iff no Error and a Warning,
\* PartialSuccess iff an Error and continue_on_error, Failed iff an Error and
\* not continue_on_error.
C18_StatusFromDiagnostics ==
    (parsing.tag # "none" /\ result.tag = "Ok") =>
        /\ parsing.tag = "Ok"
        /\ FindingsAccumulated(config, result.val, parsing.val)
        /\ LET errors == CountOf(parsing.val.validation_results, "Error")
               warnings == CountOf(parsing.val.validation_results, "Warning")
               status == parsing.val.status
           IN  /\ status = "Success" <=> (errors = 0 /\ warnings = 0)
               /\ status = "SuccessWithWarnings" <=> (errors = 0 /\ warnings > 0)
               /\ status = "PartialSuccess" <=>
                      (errors > 0 /\ config.continue_on_error)
               /\ status = "Failed" <=> (errors > 0 /\ ~config.continue_on_error)

C18_Witness ==
    /\ parsing.tag = "Ok"
    /\ parsing.val.status = "PartialSuccess"
    /\ CountOf(parsing.val.validation_results, "Warning") > 0
    /\ Len(parsing.val.transaction_summaries) = 2

\* element n (counted from 1) of the last segment of the transaction with
\* the ID that has that many elements
ElementOf(tx, id, n) ==
    LET holders == {i \in 1..Len(tx.segments) :
                       tx.segments[i].id = id /\ Len(tx.segments[i].elements) >= n}
    IN  IF holders = {} THEN None
        ELSE Some(tx.segments[CHOOSE i \in holders :
                                  \A j \in holders : j <= i].elements[n])

\* C19: in every TransactionSummary transaction_type is the ST01 of the
\* transaction (its transaction_set_id), document_id is BEG03, document_date
\* is BEG05 and currency is CUR02.
C19_SummaryFields ==
    parsing.tag = "Ok" =>
        \A i \in 1..Len(parsing.val.transaction_summaries) :
            LET tx == AllTransactions(result.val)[i]
                summary == parsing.val.transaction_summaries[i]
            IN  /\ summary.transaction_type = tx.transaction_set_id
                /\ summary.business_context.document_id = ElementOf(tx, sBEG, 3)
                /\ summary.business_context.document_date =
                       ElementOf(tx, sBEG, 5)
                /\ summary.business_context.currency = ElementOf(tx, sCUR, 2)


----------------------------------------------------------------------------
(* X12Parser::validate (x12.rs 266-283) on the transactions of a parsed     *)
(* interchange, under Spec.                                                 *)

Validated == pc = "done" /\ validation.tag \in {"Ok", "Err"}

\* the transaction starts with ST and ends with SE
Enveloped(tx) ==
    /\ Len(tx.segments) > 0
    /\ tx.segments[1].id = sST
    /\ tx.segments[Len(tx.segments)].id = sSE

\* the input holds an ST record that opens a transaction and is followed by
\* the next ST, or by the end of the input, before any SE
TrailerMissing ==
    \E i \in DOMAIN Recs :
        /\ IsValidST(Recs[i])
        /\ LET later == {j \in DOMAIN Recs :
                            j > i /\ Recs[j].id \in {sST, sSE}}
           IN  \/ later = {}
               \/ Recs[CHOOSE j \in later : \A k \in later : j <= k].id = sST

\* validate returns Ok only if every transaction the interchange holds starts
\* with ST and ends with SE
ValidateChecksHeldTransactions ==
    (Validated /\ validation.tag = "Ok") =>
        \A tx \in {AllTransactions(result.val)[i] :
                      i \in 1..Len(AllTransactions(result.val))} : Enveloped(tx)

\* C20: validate returns an error for every interchange holding a
\* transaction whose first segment is not ST or whose last segment is not SE,
\* in particular for the result of parsing an input in which the SE trailer
\* of a transaction is missing, and returns Ok only if every transaction
\* starts with ST and ends with SE.
C20_ValidateRequiresEnvelopes ==
    /\ ValidateChecksHeldTransactions
    /\ (Validated /\ TrailerMissing) => validation.tag = "Err"

----------------------------------------------------------------------------
(* Writing a parsed interchange back with the separators found in its       *)
(* header and splitting it again (x12.rs 69-80, 112-139), under Spec.       *)

OptSeq(o) == IF IsSome(o) THEN <<Unwrap(o)>> ELSE <<>>

TransactionSegments(txs) == Concat([i \in 1..Len(txs) |-> txs[i].segments])

GroupSegments(fg) ==
    <<fg.gs_segment>> \o TransactionSegments(fg.transactions) \o OptSeq(fg.ge_segment)

\* every segment an interchange holds, in document order
InterchangeSegments(ic) ==
    <<ic.isa_segment>>
    \o Concat([g \in 1..Len(ic.functional_groups) |->
                   GroupSegments(ic.functional_groups[g])])
    \o OptSeq(ic.iea_segment)

\* the separators extract_delimiters_from_isa returns for the header record
Discovered == extract_delimiters_from_isa(self, segments[1]).val

\* identifier and elements joined by the element separator, every segment
\* ended by the segment separator
Serialize(segs, seps) ==
    Concat([i \in 1..Len(segs) |->
                JoinWith(<<segs[i].id>> \o segs[i].elements, seps[1]) \o <<seps[2]>>])

\* split into records and records into segments, as parse does
Tokenize(p, text) ==
    LET records == FilterNonBlank(StrSplit(text, p.segment_separator))
    IN  [i \in 1..Len(records) |-> parse_segment(p, records[i])]

\* C21: for every accepted document, writing the segments of the result with
\* the discovered element and segment separators and tokenizing the text
\* again yields the same segment list.
C21_DelimiterRoundTrip ==
    Parsed =>
        LET S == Discovered
            segs == InterchangeSegments(result.val)
        IN  Tokenize(with_delimiters(S[1], S[2], S[3]), Serialize(segs, S)) = segs

----------------------------------------------------------------------------
(* The per-segment findings of validate_transaction_structure              *)
(* (schema_engine.rs 570-623), under SpecSchema.                            *)

StructureValidated == outcome.op = "validate" /\ outcome.res.tag = "Ok"

\* the catalog the request was validated against
RequestSchema ==
    Unwrap(get_transaction_schema(engine, request.transaction_type, request.version))

\* the catalog entry of the segment at position p (counted from 1)
EntryAt(p) == FindSegmentSchema(RequestSchema, request.segments[p])

Max(S) == CHOOSE x \in S : \A y \in S : y <= x

\* the highest hierarchy level among the catalogued segments before p
HighestLevelBefore(p) ==
    Max({0} \cup {Unwrap(EntryAt(i)).hierarchy_level :
                     i \in {j \in 1..(p - 1) : IsSome(EntryAt(j))}})

\* the findings of one kind reported for the segment at position p
FindingsAt(p, result_type, phrase) ==
    SelectSeq(outcome.res.val,
              LAMBDA r : /\ r.result_type = result_type
                         /\ r.segment_position = Some(p - 1)
                         /\ Len(r.message) >= 3
                         /\ r.message[1] = "Segment"
                         /\ r.message[2] = request.segments[p]
                         /\ r.message[3] = phrase)

BackwardWarnings(p) ==
    FindingsAt(p, "Warning", "appears to move backwards in hierarchy at position")

\* C22: a backward-movement Warning is emitted for the catalogued segment at
\* position p exactly when its hierarchy level is lower than the highest
\* level among all catalogued segments before p.
C22_BackwardAgainstRunningMaximum ==
    StructureValidated =>
        \A p \in 1..Len(request.segments) :
            IsSome(EntryAt(p)) =>
                (Len(BackwardWarnings(p)) > 0 <=>
                    Unwrap(EntryAt(p)).hierarchy_level < HighestLevelBefore(p))

UsageErrors(p) == FindingsAt(p, "Error", "exceeds maximum usage of")

\* occurrences of the ID of the segment at position p up to and including p
OccurrencesUpTo(p) ==
    Cardinality({i \in 1..p : request.segments[i] = request.segments[p]})

\* the segment at position p is a catalogued occurrence beyond max_use
BeyondMaxUse(p) ==
    LET entry == EntryAt(p)
    IN  /\ IsSome(entry)
        /\ IsSome(Unwrap(entry).max_use)
        /\ OccurrencesUpTo(p) > Unwrap(Unwrap(entry).max_use)

AllUsageErrors ==
    SelectSeq(outcome.res.val,
              LAMBDA r : /\ r.result_type = "Error"
                         /\ Len(r.message) >= 3
                         /\ r.message[3] = "exceeds maximum usage of")

\* C23: exactly one usage-limit Error for every occurrence of a catalogued
\* segment ID beyond its max_use, carrying the position of that occurrence;
\* none for unlimited IDs or occurrences within the limit, so the Errors
\* for an ID number max(0, occurrences - max_use).
C23_OneUsageErrorPerExcessOccurrence ==
    StructureValidated =>
        LET usage == AllUsageErrors
            excess == {p \in 1..Len(request.segments) : BeyondMaxUse(p)}
            at(p) == SelectSeq(usage,
                               LAMBDA r : r.segment_position = Some(p - 1))
        IN  /\ \A i \in 1..Len(usage) :
                  /\ IsSome(usage[i].segment_position)
                  /\ usage[i].segment_position[1] + 1 \in excess
                  /\ usage[i].message[2] =
                         request.segments[usage[i].segment_position[1] + 1]
                  /\ usage[i].message[6] =
                         ToString(usage[i].segment_position[1] + 1)
                  /\ usage[i].element_position = None
            /\ \A p \in excess : Len(at(p)) = 1
            /\ Len(usage) = Cardinality(excess)
            /\ \A id \in {request.segments[i] : i \in 1..Len(request.segments)} :
                  LET found == FindSegmentSchema(RequestSchema, id)
                      reported == Len(SelectSeq(usage,
                                                LAMBDA r : r.message[2] = id))
                  IN  IF IsSome(found) /\ IsSome(Unwrap(found).max_use)
                      THEN reported =
                               Max({0, Occurrences(request.segments, id)
                                           - Unwrap(Unwrap(found).max_use)})
                      ELSE reported = 0

\* ST occurs three times against a limit of one, the unlimited REF twice
C23_Witness ==
    /\ StructureValidated
    /\ request.transaction_type = "850"
    /\ request.segments = <<"ST", "ST", "REF", "ST">>
    /\ Len(AllUsageErrors) = 2
    /\ Len(UsageErrors(4)) = 1

DependencyErrors(p, depends_on) ==
    SelectSeq(FindingsAt(p, "Error", "requires"),
              LAMBDA r : r.message[4] = depends_on)

\* the MustFollow dependencies of the segment at position p
MustFollowAt(p) ==
    LET entry == EntryAt(p)
    IN  IF IsSome(entry)
        THEN {Unwrap(entry).dependencies[i].depends_on :
                 i \in {j \in 1..Len(Unwrap(entry).dependencies) :
                           Unwrap(entry).dependencies[j].dependency_type
                               = "MustFollow"}}
        ELSE {}

AllDependencyErrors ==
    SelectSeq(outcome.res.val,
              LAMBDA r : /\ r.result_type = "Error"
                         /\ Len(r.message) >= 3
                         /\ r.message[3] = "requires")

\* C24: for every segment with a MustFollow dependency on D an Error is
\* reported at the position of that segment if and only if no D occurs
\* anywhere earlier in the sequence; in the 850 catalog every BEG not
\* preceded by an ST is reported and a BEG with an ST anywhere before it is
\* not.
C24_MustFollowLooksAtAllEarlierSegments ==
    StructureValidated =>
        LET reported == AllDependencyErrors
            at(p, d) == SelectSeq(reported,
                                  LAMBDA r : /\ r.segment_position = Some(p - 1)
                                             /\ r.message[4] = d)
        IN  /\ \A i \in 1..Len(reported) :
                  /\ IsSome(reported[i].segment_position)
                  /\ reported[i].segment_position[1] + 1
                         \in 1..Len(request.segments)
                  /\ reported[i].message[2] =
                         request.segments[reported[i].segment_position[1] + 1]
                  /\ reported[i].message[4]
                         \in MustFollowAt(reported[i].segment_position[1] + 1)
            /\ \A p \in 1..Len(request.segments) :
                  /\ \A d \in MustFollowAt(p) :
                        Len(at(p, d)) =
                            IF FoundBefore(request.segments, p - 1, d)
                            THEN 0 ELSE 1
                  /\ (request.transaction_type = "850"
                          /\ request.segments[p] = "BEG") =>
                         (Len(at(p, "ST")) = 1 <=>
                             \A i \in 1..(p - 1) : request.segments[i] # "ST")

\* the first BEG has no ST before it, the second has one two places earlier
C24_Witness ==
    /\ StructureValidated
    /\ request.transaction_type = "850"
    /\ request.segments = <<"BEG", "ST", "REF", "BEG">>
    /\ Len(DependencyErrors(1, "ST")) = 1
    /\ Len(DependencyErrors(4, "ST")) = 0

----------------------------------------------------------------------------
(* The loop reconstructor (models/loops.rs): parse_from_transaction walks  *)
(* the segments of an 850 transaction once, with a peekable cursor, through *)
(* header, party loops, line-item loops and summary.  po holds the local    *)
(* variables of the call while it runs and its result afterwards.           *)

\* most segments of a transaction handed to the reconstructor
MaxLoopSegs == 4

sN4 == <<"N", "4">>
sPID == <<"P", "I", "D">>
sZZ == <<"Z", "Z">>

\* loops.rs 4-10, as built at 61-67
PartyLoop(n1) ==
    [n1_segment |-> n1, n2_segments |-> <<>>, n3_segments |-> <<>>,
     n4_segment |-> None, per_segments |-> <<>>]

\* loops.rs 13-18, as built at 96-101
LineItemLoop(po1) ==
    [po1_segment |-> po1, pid_segments |-> <<>>, sac_segments |-> <<>>,
     dtm_segments |-> <<>>]

\* segments.peek(): the segment under the cursor, if any
Peek == Get(transaction.segments, po.cursor - 1)

Running(phase) == po.tag = "running" /\ po.phase = phase

\* loops.rs 30-40
LoopsBegin ==
    /\ po.tag = "none"
    /\ po' = IF transaction.transaction_set_id # s850
             THEN [tag |-> "Err", msg |-> "Not a valid 850 transaction"]
             ELSE [tag |-> "running", phase |-> "header", cursor |-> 1,
                   current |-> None,
                   val |-> [transaction_type |-> "PurchaseOrder850",
                            header_segments |-> <<>>, party_loops |-> <<>>,
                            line_item_loops |-> <<>>,
                            summary_segments |-> <<>>]]
    /\ UNCHANGED <<transaction, po_validation>>
    /\ UNCHANGED <<parseVars, schemaVars, elementVars, pipelineVars>>

\* a slip: a header segment is consumed but not kept
HeaderStep_Forget ==
    /\ Running("header")
    /\ po' = IF ~IsSome(Peek) \/ Unwrap(Peek).id \in {sN1, sPO1}
             THEN [po EXCEPT !.phase = "parties"]
             ELSE IF Unwrap(Peek).id \in {sCTT, sSE}
             THEN [po EXCEPT !.cursor = @ + 1,
                             !.val.summary_segments = Append(@, Unwrap(Peek))]
             ELSE [po EXCEPT !.cursor = @ + 1,
                             !.val.header_segments =
                                 IF Len(@) < 1 THEN Append(@, Unwrap(Peek))
                                 ELSE @]
    /\ UNCHANGED <<transaction, po_validation>>
    /\ UNCHANGED <<parseVars, schemaVars, elementVars, pipelineVars>>

\* loops.rs 43-53: one turn of the header loop
HeaderStep ==
    /\ Running("header")
    /\ po' = IF ~IsSome(Peek) \/ Unwrap(Peek).id \in {sN1, sPO1}
             THEN [po EXCEPT !.phase = "parties"]
             ELSE IF Unwrap(Peek).id \in {sCTT, sSE}
             THEN [po EXCEPT !.cursor = @ + 1,
                             !.val.summary_segments = Append(@, Unwrap(Peek))]
             ELSE [po EXCEPT !.cursor = @ + 1,
                             !.val.header_segments = Append(@, Unwrap(Peek))]
    /\ UNCHANGED <<transaction, po_validation>>
    /\ UNCHANGED <<parseVars, schemaVars, elementVars, pipelineVars>>

\* loops.rs 56-67: the head of the party loop
PartyOpen ==
    /\ Running("parties")
    /\ po' = IF ~IsSome(Peek) \/ Unwrap(Peek).id # sN1
             THEN [po EXCEPT !.phase = "items"]
             ELSE [po EXCEPT !.phase = "party", !.cursor = @ + 1,
                             !.current = Some(PartyLoop(Unwrap(Peek)))]
    /\ UNCHANGED <<transaction, po_validation>>
    /\ UNCHANGED <<parseVars, schemaVars, elementVars, pipelineVars>>

\* a slip: the segment that closes the party loop is consumed with it
PartyStep_ConsumeClosing ==
    /\ Running("party")
    /\ LET id == IF IsSome(Peek) THEN Unwrap(Peek).id ELSE <<>>
       IN  po' =
             IF ~IsSome(Peek) \/ id \in {sN1, sPO1, sCTT, sSE}
             THEN [po EXCEPT !.phase = "parties", !.current = None,
                             !.cursor = @ + 1,
                             !.val.party_loops = Append(@, Unwrap(po.current))]
             ELSE IF id = <<"N", "2">>
             THEN [po EXCEPT !.cursor = @ + 1,
                             !.current[1].n2_segments = Append(@, Unwrap(Peek))]
             ELSE IF id = <<"N", "3">>
             THEN [po EXCEPT !.cursor = @ + 1,
                             !.current[1].n3_segments = Append(@, Unwrap(Peek))]
             ELSE IF id = sN4
             THEN [po EXCEPT !.cursor = @ + 1,
                             !.current[1].n4_segment = Some(Unwrap(Peek))]
             ELSE IF id = <<"P", "E", "R">>
             THEN [po EXCEPT !.cursor = @ + 1,
                             !.current[1].per_segments = Append(@, Unwrap(Peek))]
             ELSE [po EXCEPT !.cursor = @ + 1]
    /\ UNCHANGED <<transaction, po_validation>>
    /\ UNCHANGED <<parseVars, schemaVars, elementVars, pipelineVars>>

\* loops.rs 70-87: one turn of the inner loop of a party; at its end the
\* party is pushed
PartyStep ==
    /\ Running("party")
    /\ LET id == IF IsSome(Peek) THEN Unwrap(Peek).id ELSE <<>>
       IN  po' =
             IF ~IsSome(Peek) \/ id \in {sN1, sPO1, sCTT, sSE}
             THEN [po EXCEPT !.phase = "parties", !.current = None,
                             !.val.party_loops = Append(@, Unwrap(po.current))]
             ELSE IF id = <<"N", "2">>
             THEN [po EXCEPT !.cursor = @ + 1,
                             !.current[1].n2_segments = Append(@, Unwrap(Peek))]
             ELSE IF id = <<"N", "3">>
             THEN [po EXCEPT !.cursor = @ + 1,
                             !.current[1].n3_segments = Append(@, Unwrap(Peek))]
             ELSE IF id = sN4
             THEN [po EXCEPT !.cursor = @ + 1,
                             !.current[1].n4_segment = Some(Unwrap(Peek))]
             ELSE IF id = <<"P", "E", "R">>
             THEN [po EXCEPT !.cursor = @ + 1,
                             !.current[1].per_segments = Append(@, Unwrap(Peek))]
             ELSE [po EXCEPT !.cursor = @ + 1]
    /\ UNCHANGED <<transaction, po_validation>>
    /\ UNCHANGED <<parseVars, schemaVars, elementVars, pipelineVars>>

\* loops.rs 91-101: the head of the line-item loop
ItemOpen ==
    /\ Running("items")
    /\ po' = IF ~IsSome(Peek) \/ Unwrap(Peek).id # sPO1
             THEN [po EXCEPT !.phase = "summary"]
             ELSE [po EXCEPT !.phase = "item", !.cursor = @ + 1,
                             !.current = Some(LineItemLoop(Unwrap(Peek)))]
    /\ UNCHANGED <<transaction, po_validation>>
    /\ UNCHANGED <<parseVars, schemaVars, elementVars, pipelineVars>>

\* loops.rs 104-119: one turn of the inner loop of a line item; at its end
\* the line item is pushed
ItemStep ==
    /\ Running("item")
    /\ LET id == IF IsSome(Peek) THEN Unwrap(Peek).id ELSE <<>>
       IN  po' =
             IF ~IsSome(Peek) \/ id \in {sPO1, sCTT, sSE}
             THEN [po EXCEPT !.phase = "items", !.current = None,
                             !.val.line_item_loops =
                                 Append(@, Unwrap(po.current))]
             ELSE IF id = sPID
             THEN [po EXCEPT !.cursor = @ + 1,
                             !.current[1].pid_segments = Append(@, Unwrap(Peek))]
             ELSE IF id \in {<<"S", "A", "C">>, <<"T", "D", "5">>}
             THEN [po EXCEPT !.cursor = @ + 1,
                             !.current[1].sac_segments = Append(@, Unwrap(Peek))]
             ELSE IF id = sDTM
             THEN [po EXCEPT !.cursor = @ + 1,
                             !.current[1].dtm_segments = Append(@, Unwrap(Peek))]
             ELSE [po EXCEPT !.cursor = @ + 1]
    /\ UNCHANGED <<transaction, po_validation>>
    /\ UNCHANGED <<parseVars, schemaVars, elementVars, pipelineVars>>

\* loops.rs 123-133: the rest is summary; then the result is returned
SummaryStep ==
    /\ Running("summary")
    /\ po' = IF IsSome(Peek)
             THEN [po EXCEPT !.cursor = @ + 1,
                             !.val.summary_segments = Append(@, Unwrap(Peek))]
             ELSE [tag |-> "Ok", val |-> po.val]
    /\ UNCHANGED <<transaction, po_validation>>
    /\ UNCHANGED <<parseVars, schemaVars, elementVars, pipelineVars>>

\* loops.rs 136-138
get_total_line_items(order) == Len(order.line_item_loops)

\* the segment IDs of the transactions under reconstruction: a header
\* segment, the two anchors, one continuation segment of each loop, the two
\* summary segments and an ID no arm names
LoopIds == {sBEG, sN1, sN4, sPO1, sPID, sCTT, sSE, sZZ}

\* every segment carries its place in the transaction as its only element
Numbered(ids) == [i \in 1..Len(ids) |-> Segment_new(ids[i], <<Digit(i)>>)]

LoopTransactions ==
    {Transaction_new(Numbered(ids), s850, <<"1">>) :
        ids \in SeqsUpTo(LoopIds, MaxLoopSegs)}
    \cup
    {Transaction_new(Numbered(ids), s850, <<"1">>) :
        ids \in {<<sN1, <<"N", "2">>, <<"N", "3">>, <<"P", "E", "R">>>>,
                 <<sPO1, <<"S", "A", "C">>, sDTM, <<"T", "D", "5">>>>}}
    \cup {Transaction_new(Numbered(<<sBEG, sPO1, sCTT>>), s810, <<"1">>)}

LoopsInit ==
    /\ transaction \in LoopTransactions
    /\ po = [tag |-> "none"]
    /\ po_validation = [tag |-> "none"]
    /\ ParseIdle /\ SchemaIdle /\ ElementIdle /\ PipelineIdle

LoopsNext ==
    \/ LoopsBegin
    \/ HeaderStep
    \/ PartyOpen
    \/ PartyStep
    \/ ItemOpen
    \/ ItemStep
    \/ SummaryStep

SpecLoops == LoopsInit /\ [][LoopsNext]_vars

----------------------------------------------------------------------------
(* Properties of the loop reconstructor.                                   *)

Reconstructed == po.tag = "Ok"

\* places of the segments with one of the IDs
PlacesOf(ids) ==
    {i \in 1..Len(transaction.segments) : transaction.segments[i].id \in ids}

Min(S) == CHOOSE x \in S : \A y \in S : x <= y

\* the segments before the first N1 or PO1 (all of them if there is none)
BeforeFirstAnchor ==
    IF PlacesOf({sN1, sPO1}) = {} THEN transaction.segments
    ELSE SubSeq(transaction.segments, 1, Min(PlacesOf({sN1, sPO1})) - 1)

HasOrder == po.tag \in {"running", "Ok"}

\* the place of a segment of the transaction (its segments are distinct)
PlaceOf(seg) ==
    CHOOSE i \in 1..Len(transaction.segments) : transaction.segments[i] = seg

SeqRange(q) == {q[i] : i \in 1..Len(q)}

PartyStored(party) ==
    SeqRange(party.n2_segments) \cup SeqRange(party.n3_segments)
        \cup SeqRange(party.n4_segment) \cup SeqRange(party.per_segments)

ItemStored(item) ==
    SeqRange(item.pid_segments) \cup SeqRange(item.sac_segments)
        \cup SeqRange(item.dtm_segments)

\* the place of the first segment after `anchor` with one of the IDs, or the
\* place after the last segment
ClosingPlace(anchor, ids) ==
    Min({i \in PlacesOf(ids) : i > anchor} \cup {Len(transaction.segments) + 1})

PartyClosers == {sN1, sPO1, sCTT, sSE}
ItemClosers == {sPO1, sCTT, sSE}

\* the loops built so far, the one under construction included
PartiesSoFar ==
    po.val.party_loops
        \o (IF po.tag = "running" /\ po.phase = "party" THEN po.current ELSE <<>>)

ItemsSoFar ==
    po.val.line_item_loops
        \o (IF po.tag = "running" /\ po.phase = "item" THEN po.current ELSE <<>>)

LoopsWithinBoundaries ==
    HasOrder =>
        /\ \A k \in 1..Len(PartiesSoFar) :
              LET party == PartiesSoFar[k]
                  anchor == PlaceOf(party.n1_segment)
              IN  /\ party.n1_segment \in SeqRange(transaction.segments)
                  /\ party.n1_segment.id = sN1
                  /\ \A g \in PartyStored(party) :
                        /\ g \in SeqRange(transaction.segments)
                        /\ anchor < PlaceOf(g)
                        /\ PlaceOf(g) < ClosingPlace(anchor, PartyClosers)
                  /\ k > 1 => PlaceOf(PartiesSoFar[k - 1].n1_segment) < anchor
        /\ \A k \in 1..Len(ItemsSoFar) :
              LET item == ItemsSoFar[k]
                  anchor == PlaceOf(item.po1_segment)
              IN  /\ item.po1_segment \in SeqRange(transaction.segments)
                  /\ item.po1_segment.id = sPO1
                  /\ \A g \in ItemStored(item) :
                        /\ g \in SeqRange(transaction.segments)
                        /\ anchor < PlaceOf(g)
                        /\ PlaceOf(g) < ClosingPlace(anchor, ItemClosers)
                  /\ k > 1 => PlaceOf(ItemsSoFar[k - 1].po1_segment) < anchor

\* a step keeps every loop already listed as it is, and the step that lists
\* a loop leaves the cursor on the segment that closed it
ClosedLoopsStay ==
    (HasOrder /\ po'.tag \in {"running", "Ok"}) =>
        /\ Len(po'.val.party_loops) >= Len(po.val.party_loops)
        /\ SubSeq(po'.val.party_loops, 1, Len(po.val.party_loops))
               = po.val.party_loops
        /\ Len(po'.val.line_item_loops) >= Len(po.val.line_item_loops)
        /\ SubSeq(po'.val.line_item_loops, 1, Len(po.val.line_item_loops))
               = po.val.line_item_loops
        /\ (po'.tag = "running"
                /\ \/ Len(po'.val.party_loops) > Len(po.val.party_loops)
                   \/ Len(po'.val.line_item_loops) > Len(po.val.line_item_loops)) =>
               /\ po'.cursor = po.cursor
               /\ po.cursor = ClosingPlace(
                      PlaceOf(IF po.phase = "party"
                              THEN po.current[1].n1_segment
                              ELSE po.current[1].po1_segment),
                      IF po.phase = "party" THEN PartyClosers ELSE ItemClosers)

\* C26: the segments stored in a PartyLoop lie strictly between its N1 and
\* the next N1, PO1, CTT, SE or the end of the input, those stored in a
\* LineItemLoop strictly between its PO1 and the next PO1, CTT, SE or the
\* end; the closing segment is not consumed into the loop it closes, a
\* listed loop is never changed later, and the loops of each kind are listed
\* in the order of their anchors.
C26_LoopsRespectBoundaries ==
    []LoopsWithinBoundaries /\ [][ClosedLoopsStay]_vars

\* a party with its N4 closed by a PO1, then a line item with its PID
C26_Witness ==
    /\ Reconstructed
    /\ Len(transaction.segments) = 4
    /\ Len(po.val.party_loops) = 1
    /\ po.val.party_loops[1].n4_segment = Some(transaction.segments[2])
    /\ Len(po.val.line_item_loops) = 1
    /\ po.val.line_item_loops[1].pid_segments = <<transaction.segments[4]>>


PartySegments(party) ==
    <<party.n1_segment>> \o party.n2_segments \o party.n3_segments
        \o party.n4_segment \o party.per_segments

ItemSegments(item) ==
    <<item.po1_segment>> \o item.pid_segments \o item.sac_segments
        \o item.dtm_segments

\* every segment the purchase order holds
OrderSegments(order) ==
    order.header_segments
        \o Concat([k \in 1..Len(order.party_loops) |->
                       PartySegments(order.party_loops[k])])
        \o Concat([k \in 1..Len(order.line_item_loops) |->
                       ItemSegments(order.line_item_loops[k])])
        \o order.summary_segments

TimesIn(q, x) == Cardinality({i \in 1..Len(q) : q[i] = x})

PartyContinuation == {<<"N", "2">>, <<"N", "3">>, sN4, <<"P", "E", "R">>}
ItemContinuation == {sPID, <<"S", "A", "C">>, sDTM}

\* C27: a segment is dropped only when its ID is unrecognized: each N1 is
\* the anchor of exactly one party loop and each PO1 of exactly one line-item
\* loop, each N2/N3/N4/PER inside a party loop and each PID/SAC/DTM inside a
\* line-item loop is stored in that loop, and every segment with one of
\* these IDs appears exactly once in the output.
C27_OnlyUnrecognizedDropped ==
    Reconstructed =>
        /\ \A i \in PlacesOf({sN1}) :
              Cardinality({k \in 1..Len(po.val.party_loops) :
                  po.val.party_loops[k].n1_segment = transaction.segments[i]}) = 1
        /\ \A i \in PlacesOf({sPO1}) :
              Cardinality({k \in 1..Len(po.val.line_item_loops) :
                  po.val.line_item_loops[k].po1_segment
                      = transaction.segments[i]}) = 1
        /\ \A k \in 1..Len(po.val.party_loops) :
              LET anchor == PlaceOf(po.val.party_loops[k].n1_segment)
              IN  \A i \in PlacesOf(PartyContinuation) :
                      (anchor < i /\ i < ClosingPlace(anchor, PartyClosers)) =>
                          transaction.segments[i]
                              \in PartyStored(po.val.party_loops[k])
        /\ \A k \in 1..Len(po.val.line_item_loops) :
              LET anchor == PlaceOf(po.val.line_item_loops[k].po1_segment)
              IN  \A i \in PlacesOf(ItemContinuation) :
                      (anchor < i /\ i < ClosingPlace(anchor, ItemClosers)) =>
                          transaction.segments[i]
                              \in ItemStored(po.val.line_item_loops[k])
        /\ \A i \in PlacesOf({sN1, sPO1} \cup PartyContinuation
                                 \cup ItemContinuation \cup {sCTT, sSE}) :
              TimesIn(OrderSegments(po.val), transaction.segments[i]) = 1
        /\ \A g \in SeqRange(OrderSegments(po.val)) :
              TimesIn(OrderSegments(po.val), g) = 1
        /\ get_total_line_items(po.val) = Cardinality(PlacesOf({sPO1}))

----------------------------------------------------------------------------
(* The shape of the transactions X12Parser::parse returns (x12.rs 138-191), *)
(* under Spec.                                                              *)

WellShaped(tx) ==
    LET n == Len(tx.segments)
        ses == {i \in 1..n : tx.segments[i].id = sSE}
    IN  /\ n >= 1
        /\ tx.segments[1].id = sST
        /\ \A i \in 2..n : tx.segments[i].id # sST
        /\ Cardinality(ses) <= 1
        /\ ses \subseteq {n}
        /\ \A i \in 1..n : tx.segments[i].id \notin {sGS, sGE}
        /\ Len(tx.segments[1].elements) >= 2
        /\ tx.transaction_set_id = tx.segments[1].elements[1]
        /\ tx.control_number = tx.segments[1].elements[2]

\* C28: every Transaction of a parse result starts with an ST and holds no
\* other ST, holds at most one SE, which is then its last segment, holds no
\* GS or GE, and its transaction_set_id and control_number are the first
\* and second element of its ST.
C28_TransactionsWellShaped ==
    Parsed =>
        \A i \in 1..Len(AllTransactions(result.val)) :
            WellShaped(AllTransactions(result.val)[i])

\* a result with a transaction closed by its SE and one left open at the
\* end of the input
C28_Witness ==
    /\ Parsed
    /\ \E i, j \in 1..Len(AllTransactions(result.val)) :
          LET a == AllTransactions(result.val)[i]
              b == AllTransactions(result.val)[j]
          IN  /\ Len(a.segments) >= 2 /\ a.segments[Len(a.segments)].id = sSE
              /\ b.segments[Len(b.segments)].id # sSE

----------------------------------------------------------------------------
(* The interchange trailer and the whitespace setting in X12Parser::parse   *)
(* (x12.rs 122-139, 204-213), under Spec.                                   *)

\* the records after the header whose identifier is IEA
IEARecords == {i \in DOMAIN Recs : Recs[i].id = sIEA}

\* C29: whenever the input holds an IEA record, also when a line break
\* follows every segment terminator, iea_segment of the result is that
\* record; iea_segment is None only when the input holds no IEA record.
C29_TrailerRecordIsKept ==
    Parsed =>
        /\ IEARecords # {} =>
               result.val.iea_segment = Some(Recs[Min(IEARecords)])
        /\ result.val.iea_segment = None => IEARecords = {}

\* a record as it stands between the separators, and with every piece trimmed
Untouched(line) ==
    LET pieces == StrSplit(line, parser.element_separator)
    IN  Segment_new(pieces[1], Tail(pieces))

AllTrimmed(line) ==
    LET pieces == StrSplit(line, parser.element_separator)
    IN  Segment_new(StrTrim(pieces[1]),
                    [i \in 1..(Len(pieces) - 1) |-> StrTrim(pieces[i + 1])])

\* what the setting of the parser the call was made on asks for
AsConfigured(line) ==
    IF self.trim_whitespace THEN AllTrimmed(line) ELSE Untouched(line)

\* C30: the whitespace setting governs every segment after the header:
\* with trim_whitespace(false) identifier and elements are returned as they
\* stand between the separators, with trimming enabled every element has its
\* leading and trailing whitespace removed.
C30_TrimSettingGovernsEverySegment ==
    Parsed =>
        /\ \A g \in SeqRange(Tail(InterchangeSegments(result.val))) :
              \E i \in 2..Len(segments) : g = AsConfigured(segments[i])
        /\ doc.class = "padded" =>
              Tail(InterchangeSegments(result.val))
                  = [i \in 1..(Len(segments) - 1) |-> AsConfigured(segments[i + 1])]

====
